---- MODULE Spec2Model ----
(***************************************************************************)
(* Model of the agent orchestration loop of src/src/agent.ts               *)
(* (class CoinbaseAgent): the conversation history, the single pending     *)
(* transaction slot, the bounded iteration loop of processAgentIteration   *)
(* and the public operations chat, confirmTransaction, cancelTransaction   *)
(* and clearHistory.  One public call is in progress at a time; the call   *)
(* advances at its suspension points (the model call, each tool call).     *)
(***************************************************************************)
EXTENDS Integers, Sequences, FiniteSets, TLC

(***************************************************************************)
(* Bounds of the exploration (not program constants).                      *)
(***************************************************************************)
\* Families of runs are explored, the family being chosen in the initial
\* state.  A "session" run is a sequence of public calls in which the model
\* requests one invocation in all; a "busy_session" run is two public calls
\* with several invocations; a "failing_turn" run is one chat call in which
\* several external calls fail; a "long_turn" run is one chat call in which
\* the model may ask for invocations in every round of the loop; a
\* "long_history" run is two public calls in a session whose history is
\* near the summarization trigger; a "two_sessions" run has a second
\* instance in the process; a "wallet_tools" run is two public calls of
\* a session whose registry holds every fund-moving operation.  Outside
\* failing_turn at most one external call fails in a run.
\* public calls (chat, confirm, cancel, clearHistory) started in a session run
MaxOps == 3
\* invocations the model may list in one response
MaxCalls == 2
\* invocations the model requests over a busy_session run
MaxRequests == 2
\* external calls (model, tool) that fail in a failing_turn run
MaxFailures == 2
\* invocations a long_turn run may request beyond one per round
LongTurnExtraRequests == 1
\* public calls made in a run of overlapping calls
MaxOverlapOps == 3
\* HTTP requests in progress at the same time on the server
MaxServerRequests == 3

(***************************************************************************)
(* Program constants.                                                      *)
(***************************************************************************)
maxIterations == 5
RawOutputMaxLength == 200
DefaultSummaryTriggerMessages == 40
DefaultSummaryKeepMessages == 12
MinSummaryTrigger == 10
MinSummaryKeep == 6
MinMessagesToSummarize == 4

Max(a, b) == IF a >= b THEN a ELSE b

\* optional values: null is the empty sequence, a value v is <<v>>
Null == <<>>
Some(v) == <<v>>

\* the family of runs, chosen in Init and never changed
VARIABLE profile

(***************************************************************************)
(* Tool names.  The registry (this.tools) is what initialize got from the  *)
(* action providers, agent.ts 207-214.  In the runs of the family          *)
(* wallet_tools it holds every fund-moving operation; in the others it     *)
(* holds get_balance and native_transfer, and the model may also name      *)
(* tools the registry lacks, here unknown_tool and erc20_transfer.         *)
(***************************************************************************)
TRANSACTION_REQUIRING_CONFIRMATION ==
  {"native_transfer", "erc20_transfer", "uniswap_swap", "wrap_eth", "unwrap_eth"}

tools ==
  IF profile = "wallet_tools"
  THEN {"get_balance", "native_transfer", "erc20_transfer", "uniswap_swap",
        "wrap_eth", "unwrap_eth"}
  ELSE {"get_balance", "native_transfer"}

\* variant: a name of the fund-moving set counts as resolved
ToolResolves_OrFundMoving(name) ==
  name \in tools \/ \E n \in TRANSACTION_REQUIRING_CONFIRMATION : name = n

\* agent.ts 507-508: this.tools.find((t) => t.name === toolCall.name)
ToolResolves(name) == name \in tools

\* String.prototype.includes on the names of the model
NameIncludes(name, part) ==
  \/ name = part
  \/ <<name, part>> \in {<<"native_transfer", "transfer">>,
                         <<"erc20_transfer", "transfer">>,
                         <<"get_balance", "balance">>,
                         <<"unwrap_eth", "wrap_eth">>}

\* agent.ts 510-512
requiresConfirmation(name) ==
  \E n \in TRANSACTION_REQUIRING_CONFIRMATION : NameIncludes(name, n)

\* vocabulary of the properties: a tool whose name contains one of the
\* fund-moving operation names
FundMovingTool(name) ==
  \E n \in {"native_transfer", "erc20_transfer", "uniswap_swap",
            "wrap_eth", "unwrap_eth"} : NameIncludes(name, n)

\* the invocations a model response may list
Invocations ==
  IF profile = "wallet_tools"
  THEN [name : TRANSACTION_REQUIRING_CONFIRMATION,
        args : {"a1", "a2", "a3", "a4"}]
  ELSE {[name |-> "get_balance", args |-> "a1"],
        [name |-> "unknown_tool", args |-> "a1"],
        [name |-> "erc20_transfer", args |-> "a1"],
        [name |-> "native_transfer", args |-> "a1"],
        [name |-> "native_transfer", args |-> "a2"]}

\* non-empty lists of at most n invocations
RECURSIVE CallLists(_)
CallLists(n) ==
  IF n = 0 THEN {}
  ELSE LET shorter == CallLists(n - 1)
       IN  {<<i>> : i \in Invocations}
             \cup shorter
             \cup {Append(s, i) : s \in shorter, i \in Invocations}

(***************************************************************************)
(* Results and messages.                                                   *)
(***************************************************************************)
\* the string a tool returns for an invocation, and the text of its error
ToolOutput(name, args) == <<"out", name, args>>

\* uniswapActionProvider, invoke (44-112): uniswap_swap has a try around
\* its whole body and the catch returns `Swap failed: ${error}`; the other
\* tools raise
CatchesOwnFailure(name) == NameIncludes(name, "uniswap_swap")
FailureOutput(name, args) == <<"Swap failed", name, args>>
ToolErrorMessage == "tool_error"
LLMErrorMessage == "llm_error"

(***************************************************************************)
(* formatToolResult, agent.ts 384-479.  A raw result is a record: its      *)
(* typeof, for a string what its text looks like (plain, beginning with a  *)
(* brace or bracket but not JSON, or the JSON of an object or an array),   *)
(* for an object the truthy members the function reads, and whether        *)
(* JSON.stringify of the value succeeds (it raises a TypeError on a        *)
(* circular reference and on a BigInt member).  The members address and    *)
(* balance are strings when present.                                       *)
(***************************************************************************)
RawResult(type, looks, text, members, serializable) ==
  [type |-> type, looks |-> looks, text |-> text, members |-> members,
   serializable |-> serializable]

StringResult(text) == RawResult("string", "plain", text, {}, TRUE)

\* outcomes of a call: a returned value with its typeof, or an exception
ReturnedString(text) == [threw |-> FALSE, type |-> "string", text |-> text]
Threw == [threw |-> TRUE, type |-> "none", text |-> <<>>]

\* JSON.parse(result), agent.ts 390, of a text that is JSON
JSONParse(result) ==
  RawResult(IF result.looks = "json_array" THEN "array" ELSE "object",
            "none", result.text, result.members, TRUE)

\* JSON.stringify(value, null, 2) of an object built from the members kept
JSONStringify(members) == <<"json", members>>

\* agent.ts 401-476: typeof result === 'object' && result !== null
formatObject(toolName, result) ==
  IF toolName = "get_wallet_address"
  THEN ReturnedString(JSONStringify(result.members \cap {"address"}))
  ELSE IF toolName \in {"get_wallet_details", "getWalletDetails"}
  THEN ReturnedString(JSONStringify({"address", "balance", "network"}))
  ELSE IF NameIncludes(toolName, "balance")
  THEN ReturnedString(JSONStringify(result.members \cap {"address", "balance"}))
  ELSE IF result.serializable
  THEN ReturnedString(JSONStringify(result.members))
  ELSE Threw

formatToolResult(toolName, result) ==
  CASE result.type = "string" ->
         IF result.looks \in {"json_object", "json_array"}
         THEN LET formatted == formatObject(toolName, JSONParse(result))
              IN  IF formatted.threw THEN ReturnedString(result.text)
                  ELSE formatted
         ELSE ReturnedString(result.text)
    [] result.type \in {"object", "array"} -> formatObject(toolName, result)
    [] OTHER -> ReturnedString(result.text)

\* agent.ts 538, 787: the tools of the model return strings that are not
\* JSON
formatText(toolName, text) ==
  formatToolResult(toolName, StringResult(text)).text

\* the raw results and tool names of the runs that format one result
FormatToolNames ==
  {"get_wallet_address", "get_wallet_details", "get_balance",
   "native_transfer"}

RawResults ==
  {RawResult("string", looks, text, {}, TRUE) :
     looks \in {"plain", "malformed"}, text \in {"text1", "text2"}}
  \cup {RawResult("string", looks, "text3", members, TRUE) :
          looks \in {"json_object", "json_array"},
          members \in SUBSET {"address", "balance"}}
  \cup {RawResult(type, "none", "", members, serializable) :
          type \in {"object", "array"},
          members \in SUBSET {"address", "balance"},
          serializable \in BOOLEAN}
  \cup {RawResult("null", "none", "null", {}, TRUE),
        RawResult("undefined", "none", "undefined", {}, TRUE),
        RawResult("number", "none", "42", {}, TRUE)}

\* the last application of formatToolResult or of a setter of
\* runtime-state.ts: the function, its arguments, the value stored before
\* and the outcome
Application(fn, toolName, input, before, outcome) ==
  [fn |-> fn, toolName |-> toolName, input |-> input, before |-> before,
   outcome |-> outcome]

NotApplied == Application("none", "", <<>>, <<>>, <<>>)

ToolResultsToFormat ==
  {Application("none", toolName, result, <<>>, <<>>) :
     toolName \in FormatToolNames, result \in RawResults}

\* agent.ts 553: `Error: ${errorMsg}`
ErrorResult(errorMsg) == <<"Error", errorMsg>>

ToolCallRecord(name, result) == [name |-> name, result |-> result]

Message(role, kind, text, body) ==
  [role |-> role, kind |-> kind, text |-> text, body |-> body]

SystemPromptMessage == Message("system", "SYSTEM_PROMPT", "", <<>>)
HumanMessage == Message("human", "user", "", <<>>)
AIMessage(kind, text, body) == Message("ai", kind, text, body)

\* what the model can say without tool calls: whether the text repeats a
\* recorded raw result (or names Tool "x"), and its length.  The empty text
\* includes no result of a tool, the results being non-empty texts.
Contents ==
  {[id |-> "empty", echoes |-> FALSE, length |-> 0],
   [id |-> "friendly", echoes |-> FALSE, length |-> 80],
   [id |-> "echo_short", echoes |-> TRUE, length |-> 80],
   [id |-> "echo_long", echoes |-> TRUE, length |-> 400]}

\* agent.ts 254-379: the templated message built from the tool records
generateFriendlyMessageFromToolResults(toolCalls) ==
  IF Len(toolCalls) = 0
  THEN [kind |-> "done_fixed", text |-> "", body |-> <<>>]
  ELSE [kind |-> "friendly", text |-> "", body |-> toolCalls]

\* args.tokenIn of the argument objects: a1 has none
TokenIn(args) ==
  CASE args = "a2" -> "ETH"
    [] args = "a3" -> "eth"
    [] args = "a4" -> "USDC"
    [] OTHER -> ""

\* String.prototype.toUpperCase on the token names of the model
ToUpperCase(str) == IF str = "eth" THEN "ETH" ELSE str

\* String(args?.tokenIn || '').toUpperCase()
TokenInUpper(args) == ToUpperCase(TokenIn(args))

\* agent.ts 700-734: the block that opens the description; the first test
\* that matches decides
generateTransactionDescription(toolName) ==
  IF NameIncludes(toolName, "native_transfer") THEN "native_transfer"
  ELSE IF NameIncludes(toolName, "erc20_transfer") THEN "erc20_transfer"
  ELSE IF NameIncludes(toolName, "uniswap_swap") THEN "uniswap_swap"
  ELSE IF NameIncludes(toolName, "wrap_eth") THEN "wrap_eth"
  ELSE IF NameIncludes(toolName, "unwrap_eth") THEN "unwrap_eth"
  ELSE "generic"

\* agent.ts 739-759: the description block, the balance line and the warning
buildTransactionDescription(toolName, args, balance) ==
  LET needsEthBalanceCheck ==
        \/ NameIncludes(toolName, "native_transfer")
        \/ NameIncludes(toolName, "wrap_eth")
        \/ (NameIncludes(toolName, "uniswap_swap") /\ TokenInUpper(args) = "ETH")
  IN  [toolName |-> toolName,
       args |-> args,
       block |-> generateTransactionDescription(toolName),
       balanceLine |-> needsEthBalanceCheck /\ balance # "unavailable",
       warning |-> needsEthBalanceCheck /\ balance = "insufficient"]

Balances == {"unavailable", "enough", "insufficient"}

VARIABLES
  conversationHistory,  \* this.conversationHistory
  pendingTransaction,   \* this.pendingTransaction: Null or Some(record)
  summaryTriggerMessages, \* config.summaryTriggerMessages
  summaryKeepMessages,  \* config.summaryKeepMessages
  pc,                   \* position of the public call in progress
  op,                   \* the public call in progress or last finished
  iteration,            \* processAgentIteration: iteration
  allToolCalls,         \* processAgentIteration: allToolCalls
  toolResults,          \* processAgentIteration: toolResults of the round
  toolQueue,            \* invocations of the response not yet looked at
  prefixMessage,        \* processAgentIteration: prefixMessage (Null or Some)
  errorMsg,             \* chat: errorMsg of the caught failure
  response,             \* value returned by the last finished call
  execLog,              \* history variable: every tool invocation made
  llmLog,               \* history variable: model calls of the current call
  preHistory,           \* history variable: history when the call started
  prePending,           \* history variable: pending slot when the call started
  preExecLen,           \* history variable: Len(execLog) when the call started
  fundRequested,        \* history variable: the model asked for a fund-moving
                        \* invocation during the call
  pendingReq,           \* history variable: request number that froze the slot
  cancelledReqs,        \* history variable: request numbers cancelled
  walletAddress,        \* this.walletAddress, '' until initialize
  serverWalletAddress,  \* runtime-state.ts: the module-level variable
  peer,                 \* a second instance of the process: its wallet
                        \* address, history and pending slot
  droppedReqs,          \* history variable: the requests listed after an
                        \* invocation that was frozen, in its round
  summaryOutcome,       \* history variable: what maybeSummarizeHistory did
                        \* in the last chat: "none", "ok" or "failed"
  frozenCall,           \* history variable: the invocation the model
                        \* requested when the slot was filled
  threads,              \* the public calls in progress when calls overlap:
                        \* each with its position and its locals
  server,               \* server.ts 66-68: agent and agentInitialized, with
                        \* the instances created and those whose
                        \* initialize() has completed
  clientWalletAddress,  \* runtime-state.ts 6
  applied,              \* history variable: the last application of
                        \* formatToolResult or of a setter of
                        \* runtime-state.ts
  nOps, nReq, nFail     \* exploration counters

vars == <<conversationHistory, pendingTransaction, summaryTriggerMessages,
          summaryKeepMessages, pc, op, iteration, allToolCalls, toolResults,
          toolQueue, prefixMessage, errorMsg, response, execLog, llmLog,
          preHistory, prePending, preExecLen, fundRequested, pendingReq,
          cancelledReqs, walletAddress, serverWalletAddress, peer,
          droppedReqs, summaryOutcome, frozenCall, profile, threads, server,
          clientWalletAddress, applied, nOps, nReq, nFail>>

Profiles ==
  {"session", "busy_session", "failing_turn", "long_turn", "long_history",
   "two_sessions", "wallet_tools", "tool_results", "runtime_state"}
OpsBudget ==
  CASE profile = "session" -> MaxOps
    [] profile \in {"busy_session", "long_history", "wallet_tools"} -> 2
    [] profile \in {"tool_results", "runtime_state"} -> 0
    [] OTHER -> 1
RequestsBudget ==
  CASE profile = "busy_session" -> MaxRequests
    [] profile = "long_turn" -> maxIterations + LongTurnExtraRequests
    [] OTHER -> 1
CallsBudget ==
  IF profile \in {"busy_session", "failing_turn", "long_turn"} THEN MaxCalls
  ELSE 1
FailuresBudget == IF profile = "failing_turn" THEN MaxFailures ELSE 1

NoResponse == [op |-> "none", message |-> [kind |-> "none", prefix |-> Null,
                                            text |-> "", body |-> <<>>,
                                            description |-> Null],
               toolCalls |-> Null, pendingTransaction |-> Null]

ResponseMessage(kind, prefix, text, body, description) ==
  [kind |-> kind, prefix |-> prefix, text |-> text, body |-> body,
   description |-> description]

\* a history of n messages left by earlier turns: the system prompt, then
\* user messages and replies in turn, each with a text of its own
EarlierTurns(n) ==
  [i \in 1..n |->
     IF i = 1 THEN SystemPromptMessage
     ELSE IF i % 2 = 0 THEN Message("human", "user", ToString(i), <<>>)
     ELSE AIMessage("content", ToString(i), <<>>)]

\* config.ts 44-45: the values SUMMARY_TRIGGER_MESSAGES and
\* SUMMARY_KEEP_MESSAGES parse to: the defaults, values under the minima of
\* agent.ts 840 and 845, and a trigger less than four above the keep count
SummaryConfigs ==
  {<<DefaultSummaryTriggerMessages, DefaultSummaryKeepMessages>>,
   <<MinSummaryTrigger - 5, MinSummaryKeep - 3>>,
   <<MinSummaryTrigger + 2, MinSummaryKeep + 3>>}

\* the lengths around the summarization trigger a session reaches
LongHistories(triggerCfg) ==
  {EarlierTurns(n) : n \in {Max(MinSummaryTrigger, triggerCfg) - 1,
                             Max(MinSummaryTrigger, triggerCfg),
                             Max(MinSummaryTrigger, triggerCfg) + 1,
                             Max(MinSummaryTrigger, triggerCfg) + maxIterations}}

\* a request an earlier turn froze
EarlierFrozenCall == [name |-> "native_transfer", args |-> "a2"]
EarlierPending ==
  [toolName |-> EarlierFrozenCall.name,
   toolArgs |-> EarlierFrozenCall.args,
   description |-> buildTransactionDescription(EarlierFrozenCall.name,
                                               EarlierFrozenCall.args,
                                               "enough")]

\* server.ts 66-67: let agent = null, agentInitialized = false
NoServer ==
  [agent |-> Null, agentInitialized |-> FALSE, created |-> 0,
   initialized |-> {}]

\* agent.ts 164-168 (constructor) and config.ts 44-45.  The runs of the
\* family long_history start in a session that has had earlier turns.
Init ==
  /\ profile \in Profiles
  /\ IF profile = "long_history"
     THEN /\ \E cfg \in SummaryConfigs :
               /\ summaryTriggerMessages = cfg[1]
               /\ summaryKeepMessages = cfg[2]
          /\ conversationHistory \in LongHistories(summaryTriggerMessages)
          /\ pendingTransaction \in {Null, Some(EarlierPending)}
          /\ frozenCall = IF pendingTransaction = Null THEN Null
                          ELSE Some(EarlierFrozenCall)
     ELSE /\ summaryTriggerMessages = DefaultSummaryTriggerMessages
          /\ summaryKeepMessages = DefaultSummaryKeepMessages
          /\ conversationHistory = <<SystemPromptMessage>>
          /\ pendingTransaction = Null
          /\ frozenCall = Null
  /\ summaryOutcome = "none"
  /\ threads = <<>>
  /\ server = NoServer
  /\ clientWalletAddress = Null
  /\ applied \in IF profile = "tool_results" THEN ToolResultsToFormat
                 ELSE {NotApplied}
  /\ droppedReqs = {}
  /\ walletAddress = ""
  /\ serverWalletAddress = Null
  /\ peer = [walletAddress |-> "",
             conversationHistory |-> <<SystemPromptMessage>>,
             pendingTransaction |-> Null]
  /\ pc = "idle"
  /\ op = "none"
  /\ iteration = 0
  /\ allToolCalls = <<>>
  /\ toolResults = <<>>
  /\ toolQueue = <<>>
  /\ prefixMessage = Null
  /\ errorMsg = ""
  /\ response = NoResponse
  /\ execLog = <<>>
  /\ llmLog = <<>>
  /\ preHistory = <<>>
  /\ prePending = Null
  /\ preExecLen = 0
  /\ fundRequested = FALSE
  /\ pendingReq = 0
  /\ cancelledReqs = {}
  /\ nOps = 0
  /\ nReq = 0
  /\ nFail = 0

(***************************************************************************)
(* initialize, agent.ts 173-229, and the module-level wallet address of    *)
(* runtime-state.ts.  The runs of the family two_sessions have a second    *)
(* instance in the process; either instance may be initialized between     *)
(* two calls.                                                              *)
(***************************************************************************)
PrivateKeys == {"key1", "key2"}

\* privateKeyToAccount(pk).address: a well-formed address
AddressOf(privateKey) == IF privateKey = "key1" THEN "0xA1" ELSE "0xB2"

(***************************************************************************)
(* runtime-state.ts.  The text of an address is a sequence of pieces: "sp" *)
(* is a whitespace character, "0xA1" and "0xB2" each stand for 0x and 40   *)
(* hexadecimal digits, "0x1" for 0x and fewer digits, "zz" for characters  *)
(* that are not hexadecimal digits.  An argument is null or a text.        *)
(***************************************************************************)
NullAddress == [isNull |-> TRUE, chars |-> <<>>]
AddressText(chars) == [isNull |-> FALSE, chars |-> chars]

\* String.prototype.trim
RECURSIVE trimStart(_)
trimStart(chars) ==
  IF chars # <<>> /\ Head(chars) = "sp" THEN trimStart(Tail(chars))
  ELSE chars

RECURSIVE trimEnd(_)
trimEnd(chars) ==
  IF chars # <<>> /\ chars[Len(chars)] = "sp"
  THEN trimEnd(SubSeq(chars, 1, Len(chars) - 1))
  ELSE chars

trim(chars) == trimEnd(trimStart(chars))

\* /^0x[a-fA-F0-9]{40}$/.test(normalized)
WellFormedAddress(normalized) ==
  /\ Len(normalized) = 1
  /\ normalized[1] \in {"0xA1", "0xB2"}

\* !address, runtime-state.ts 10 and 26: null and the empty string
Falsy(address) == address.isNull \/ address.chars = <<>>

\* runtime-state.ts 9-19: the value of the variable after the call
setClientWalletAddress_StoresUntrimmed(current, address) ==
  IF Falsy(address) THEN Null
  ELSE IF WellFormedAddress(trim(address.chars)) THEN Some(address.chars)
  ELSE current

setClientWalletAddress(current, address) ==
  IF Falsy(address) THEN Null
  ELSE LET normalized == trim(address.chars)
       IN  IF WellFormedAddress(normalized) THEN Some(normalized)
           ELSE current

\* runtime-state.ts 25-35: the value of the variable after the call
setServerWalletAddress(current, address) ==
  IF Falsy(address) THEN Null
  ELSE LET normalized == trim(address.chars)
       IN  IF WellFormedAddress(normalized) THEN Some(normalized)
           ELSE current

\* the arguments of the runs that call the setters
AddressInputs ==
  {NullAddress}
  \cup {AddressText(chars) :
          chars \in {<<>>, <<"sp">>, <<"0xA1">>, <<"0xB2">>,
                     <<"sp", "0xA1", "sp">>, <<"0xB2", "sp">>, <<"zz">>,
                     <<"0x1">>, <<"0xA1", "zz">>, <<"0xA1", "sp", "0xB2">>}}

\* a call of the exported setClientWalletAddress
SetClientWalletAddress ==
  /\ profile = "runtime_state"
  /\ nOps < MaxOps
  /\ \E address \in AddressInputs :
       /\ clientWalletAddress' =
            setClientWalletAddress(clientWalletAddress, address)
       /\ applied' = Application("setClientWalletAddress", "", address,
                                 clientWalletAddress, clientWalletAddress')
  /\ nOps' = nOps + 1
  /\ UNCHANGED <<profile, threads, server, droppedReqs,
                 walletAddress, serverWalletAddress, peer, summaryOutcome,
                 frozenCall, conversationHistory, pendingTransaction,
                 summaryTriggerMessages, summaryKeepMessages, pc, op,
                 iteration, allToolCalls, toolResults, toolQueue,
                 prefixMessage, errorMsg, response, execLog, llmLog,
                 preHistory, prePending, preExecLen, fundRequested,
                 pendingReq, cancelledReqs, nReq, nFail>>

\* a call of the exported setServerWalletAddress
SetServerWalletAddress ==
  /\ profile = "runtime_state"
  /\ nOps < MaxOps
  /\ \E address \in AddressInputs :
       /\ serverWalletAddress' =
            setServerWalletAddress(serverWalletAddress, address)
       /\ applied' = Application("setServerWalletAddress", "", address,
                                 serverWalletAddress, serverWalletAddress')
  /\ nOps' = nOps + 1
  /\ UNCHANGED <<profile, threads, server, droppedReqs,
                 walletAddress, clientWalletAddress, peer, summaryOutcome,
                 frozenCall, conversationHistory, pendingTransaction,
                 summaryTriggerMessages, summaryKeepMessages, pc, op,
                 iteration, allToolCalls, toolResults, toolQueue,
                 prefixMessage, errorMsg, response, execLog, llmLog,
                 preHistory, prePending, preExecLen, fundRequested,
                 pendingReq, cancelledReqs, nReq, nFail>>

\* POST /api/client_wallet, server.ts 386-397: 400 without an address,
\* otherwise the setter
PostClientWallet ==
  /\ profile = "runtime_state"
  /\ nOps < MaxOps
  /\ \E address \in AddressInputs :
       IF Falsy(address)
       THEN /\ applied' = Application("rejected", "", address,
                                      clientWalletAddress,
                                      clientWalletAddress)
            /\ UNCHANGED clientWalletAddress
       ELSE /\ clientWalletAddress' =
                 setClientWalletAddress(clientWalletAddress, address)
            /\ applied' = Application("setClientWalletAddress", "", address,
                                      clientWalletAddress,
                                      clientWalletAddress')
  /\ nOps' = nOps + 1
  /\ UNCHANGED <<profile, threads, server, droppedReqs,
                 walletAddress, serverWalletAddress, peer, summaryOutcome,
                 frozenCall, conversationHistory, pendingTransaction,
                 summaryTriggerMessages, summaryKeepMessages, pc, op,
                 iteration, allToolCalls, toolResults, toolQueue,
                 prefixMessage, errorMsg, response, execLog, llmLog,
                 preHistory, prePending, preExecLen, fundRequested,
                 pendingReq, cancelledReqs, nReq, nFail>>

\* DELETE /api/client_wallet, server.ts 399-406
DeleteClientWallet ==
  /\ profile = "runtime_state"
  /\ nOps < MaxOps
  /\ clientWalletAddress' =
       setClientWalletAddress(clientWalletAddress, NullAddress)
  /\ applied' = Application("setClientWalletAddress", "", NullAddress,
                            clientWalletAddress, clientWalletAddress')
  /\ nOps' = nOps + 1
  /\ UNCHANGED <<profile, threads, server, droppedReqs,
                 walletAddress, serverWalletAddress, peer, summaryOutcome,
                 frozenCall, conversationHistory, pendingTransaction,
                 summaryTriggerMessages, summaryKeepMessages, pc, op,
                 iteration, allToolCalls, toolResults, toolQueue,
                 prefixMessage, errorMsg, response, execLog, llmLog,
                 preHistory, prePending, preExecLen, fundRequested,
                 pendingReq, cancelledReqs, nReq, nFail>>

Initialize ==
  /\ profile = "two_sessions"
  /\ pc = "idle"
  /\ \E privateKey \in PrivateKeys :
       /\ walletAddress' = AddressOf(privateKey)
       /\ serverWalletAddress' =
            setServerWalletAddress(serverWalletAddress,
                                   AddressText(<<AddressOf(privateKey)>>))
  /\ UNCHANGED <<profile, threads, server, clientWalletAddress, applied, droppedReqs, peer, summaryOutcome, frozenCall,
                 conversationHistory, pendingTransaction,
                 summaryTriggerMessages, summaryKeepMessages, pc, op,
                 iteration, allToolCalls, toolResults, toolQueue,
                 prefixMessage, errorMsg, response, execLog, llmLog,
                 preHistory, prePending, preExecLen, fundRequested,
                 pendingReq, cancelledReqs, nOps, nReq, nFail>>

\* initialize called on the second instance
PeerInitialize ==
  /\ profile = "two_sessions"
  /\ pc = "idle"
  /\ \E privateKey \in PrivateKeys :
       /\ peer' = [peer EXCEPT !.walletAddress = AddressOf(privateKey)]
       /\ serverWalletAddress' =
            setServerWalletAddress(serverWalletAddress,
                                   AddressText(<<AddressOf(privateKey)>>))
  /\ UNCHANGED <<profile, threads, server, clientWalletAddress, applied, droppedReqs, walletAddress, summaryOutcome, frozenCall,
                 conversationHistory, pendingTransaction,
                 summaryTriggerMessages, summaryKeepMessages, pc, op,
                 iteration, allToolCalls, toolResults, toolQueue,
                 prefixMessage, errorMsg, response, execLog, llmLog,
                 preHistory, prePending, preExecLen, fundRequested,
                 pendingReq, cancelledReqs, nOps, nReq, nFail>>

(***************************************************************************)
(* maybeSummarizeHistory, agent.ts 839-883.  summaryOk is the outcome of   *)
(* the summary-model call.                                                 *)
(***************************************************************************)
\* variant: one message more than asked for is kept
SliceLast_OneMore(s, n) ==
  IF n + 1 >= Len(s) THEN s ELSE SubSeq(s, Len(s) - n, Len(s))

\* variant: the messages kept end before the newest one
SliceLast_BeforeNewest(s, n) ==
  IF n >= Len(s) THEN SubSeq(s, 1, Len(s) - 1)
  ELSE SubSeq(s, Len(s) - n, Len(s) - 1)

\* agent.ts 846: slice(-keepCount)
SliceLast(s, n) ==
  IF n >= Len(s) THEN s ELSE SubSeq(s, Len(s) - n + 1, Len(s))

\* agent.ts 847: slice(1, -keepCount)
SliceMiddle(s, n) ==
  IF Len(s) - n < 2 THEN <<>> ELSE SubSeq(s, 2, Len(s) - n)

SummaryMessage == Message("system", "summary", "", <<>>)

SummarizationRuns(history, triggerCfg, keepCfg) ==
  /\ Len(history) > Max(MinSummaryTrigger, triggerCfg)
  /\ Len(SliceMiddle(history, Max(MinSummaryKeep, keepCfg))) >= MinMessagesToSummarize

\* variant: a failed summary call leaves the history as it is
maybeSummarizeHistory_FailureKeepsAll(history, triggerCfg, keepCfg, summaryOk) ==
  LET trigger == Max(MinSummaryTrigger, triggerCfg)
      keepCount == Max(MinSummaryKeep, keepCfg)
      recentMessages == SliceLast(history, keepCount)
      messagesToSummarize == SliceMiddle(history, keepCount)
  IN  IF Len(history) <= trigger THEN history
      ELSE IF Len(messagesToSummarize) < MinMessagesToSummarize THEN history
      ELSE IF summaryOk
           THEN <<SystemPromptMessage, SummaryMessage>> \o recentMessages
           ELSE history

\* variant: a middle part of any length is summarized
maybeSummarizeHistory_NoMiddleCheck(history, triggerCfg, keepCfg, summaryOk) ==
  LET trigger == Max(MinSummaryTrigger, triggerCfg)
      keepCount == Max(MinSummaryKeep, keepCfg)
      recentMessages == SliceLast(history, keepCount)
  IN  IF Len(history) <= trigger THEN history
      ELSE IF summaryOk
           THEN <<SystemPromptMessage, SummaryMessage>> \o recentMessages
           ELSE <<SystemPromptMessage>> \o recentMessages

maybeSummarizeHistory(history, triggerCfg, keepCfg, summaryOk) ==
  LET trigger == Max(MinSummaryTrigger, triggerCfg)
      keepCount == Max(MinSummaryKeep, keepCfg)
      recentMessages == SliceLast(history, keepCount)
      messagesToSummarize == SliceMiddle(history, keepCount)
  IN  IF Len(history) <= trigger THEN history
      ELSE IF Len(messagesToSummarize) < MinMessagesToSummarize THEN history
      ELSE IF summaryOk
           THEN <<SystemPromptMessage, SummaryMessage>> \o recentMessages
           ELSE <<SystemPromptMessage>> \o recentMessages

(***************************************************************************)
(* Values returned to the caller.                                          *)
(***************************************************************************)
\* allToolCalls.length > 0 ? allToolCalls : undefined
ToolCallsOrUndefined(calls) == IF Len(calls) > 0 THEN Some(calls) ELSE Null

Response(o, message, calls, pending) ==
  [op |-> o, message |-> message, toolCalls |-> calls,
   pendingTransaction |-> pending]

\* history: an invocation of a tool; ok: invoke returned (did not raise),
\* sent: the operation behind it succeeded
ExecEntry(name, args, by, id, ok) ==
  [name |-> name, args |-> args, by |-> by, id |-> id, ok |-> ok,
   sent |-> ok]

\* an invocation whose operation succeeded or failed: a tool that catches
\* its own failure returns all the same
InvocationEntry(name, args, by, id, sent) ==
  [ExecEntry(name, args, by, id, sent \/ CatchesOwnFailure(name))
     EXCEPT !.sent = sent]

(***************************************************************************)
(* chat, agent.ts 641-650: push the user message, summarize, enter the     *)
(* loop up to its first model call.                                        *)
(***************************************************************************)
Chat ==
  /\ pc = "idle"
  /\ nOps < OpsBudget
  /\ \E summaryOk \in BOOLEAN :
       LET pushed == Append(conversationHistory, HumanMessage)
           runs == SummarizationRuns(pushed, summaryTriggerMessages,
                                     summaryKeepMessages)
       IN  /\ (~summaryOk) => (runs /\ nFail < FailuresBudget)
           /\ conversationHistory' =
                maybeSummarizeHistory(pushed, summaryTriggerMessages,
                                      summaryKeepMessages, summaryOk)
           /\ nFail' = IF summaryOk THEN nFail ELSE nFail + 1
           /\ summaryOutcome' = IF ~runs THEN "none"
                                 ELSE IF summaryOk THEN "ok" ELSE "failed"
  /\ op' = "chat"
  /\ pc' = "llm"
  /\ iteration' = 1
  /\ allToolCalls' = <<>>
  /\ toolResults' = <<>>
  /\ toolQueue' = <<>>
  /\ prefixMessage' = Null
  /\ errorMsg' = ""
  /\ llmLog' = <<>>
  /\ preHistory' = conversationHistory
  /\ prePending' = pendingTransaction
  /\ preExecLen' = Len(execLog)
  /\ fundRequested' = FALSE
  /\ nOps' = nOps + 1
  /\ UNCHANGED <<profile, threads, server, clientWalletAddress, applied, droppedReqs, walletAddress, serverWalletAddress, peer, frozenCall, pendingTransaction, summaryTriggerMessages,
                 summaryKeepMessages, response, execLog, pendingReq,
                 cancelledReqs, nReq>>

\* the message of a response, with the prefix of the resumed loop
WithPrefix(kind, text, body, description) ==
  ResponseMessage(kind, prefixMessage, text, body, description)

(***************************************************************************)
(* processAgentIteration, agent.ts 497-499 and 599-624: the model call     *)
(* returns.  It raises, answers with text, or requests invocations.        *)
(***************************************************************************)
\* agent.ts 806-812 (confirmTransaction) and 651-652 (chat): the catch that
\* receives a failure raised inside the loop
LLMFails ==
  /\ pc = "llm"
  /\ nFail < FailuresBudget
  /\ nFail' = nFail + 1
  /\ llmLog' = Append(llmLog, "raise")
  /\ IF op = "chat"
     THEN /\ errorMsg' = LLMErrorMessage
          /\ pc' = "explain"
          /\ UNCHANGED <<pendingTransaction, response>>
     ELSE /\ pendingTransaction' = Null
          /\ response' = Response(op,
                ResponseMessage("tx_failed", Null, LLMErrorMessage, <<>>, Null),
                Null, Null)
          /\ pc' = "idle"
          /\ UNCHANGED errorMsg
  /\ UNCHANGED <<profile, threads, server, clientWalletAddress, applied, droppedReqs, walletAddress, serverWalletAddress, peer, summaryOutcome, frozenCall, preExecLen, fundRequested, conversationHistory, summaryTriggerMessages,
                 summaryKeepMessages, op, iteration, allToolCalls, toolResults,
                 toolQueue, prefixMessage, execLog, preHistory, prePending,
                 pendingReq, cancelledReqs, nOps, nReq>>

\* agent.ts 606-607
isRawToolOutput(content, calls) == Len(calls) > 0 /\ content.echoes

\* agent.ts 599-624
LLMAnswers ==
  /\ pc = "llm"
  /\ \E content \in Contents :
       IF isRawToolOutput(content, allToolCalls)
          /\ content.length < RawOutputMaxLength
       THEN LET friendlyMessage ==
                  generateFriendlyMessageFromToolResults(allToolCalls)
            IN  /\ conversationHistory' =
                     Append(conversationHistory,
                            AIMessage(friendlyMessage.kind, friendlyMessage.text,
                                      friendlyMessage.body))
                /\ response' = Response(op,
                     WithPrefix(friendlyMessage.kind, friendlyMessage.text,
                                friendlyMessage.body, Null),
                     ToolCallsOrUndefined(allToolCalls), Null)
       ELSE /\ conversationHistory' =
                 Append(conversationHistory, AIMessage("content", content.id, <<>>))
            /\ response' = Response(op,
                 WithPrefix("content", content.id, <<>>, Null),
                 ToolCallsOrUndefined(allToolCalls), Null)
  /\ llmLog' = Append(llmLog, "answer")
  /\ pc' = "idle"
  /\ UNCHANGED <<profile, threads, server, clientWalletAddress, applied, droppedReqs, walletAddress, serverWalletAddress, peer, summaryOutcome, frozenCall, preExecLen, fundRequested, pendingTransaction, summaryTriggerMessages,
                 summaryKeepMessages, op, iteration, allToolCalls, toolResults,
                 toolQueue, prefixMessage, errorMsg, execLog, preHistory,
                 prePending, pendingReq, cancelledReqs, nOps, nReq, nFail>>

\* variant: the round goes through the list from its end
Numbered_Reversed(calls, from) ==
  [i \in 1..Len(calls) |->
     [name |-> calls[Len(calls) + 1 - i].name,
      args |-> calls[Len(calls) + 1 - i].args,
      id |-> from + Len(calls) + 1 - i]]

\* the invocations of a response, numbered in the order the model made them
Numbered(calls, from) ==
  [i \in 1..Len(calls) |->
     [name |-> calls[i].name, args |-> calls[i].args, id |-> from + i]]

\* agent.ts 502-503: the response carries tool calls
LLMRequestsTools ==
  /\ pc = "llm"
  /\ \E calls \in CallLists(CallsBudget) :
       /\ nReq + Len(calls) <= RequestsBudget
       /\ toolQueue' = Numbered(calls, nReq)
       /\ fundRequested' =
            (fundRequested
               \/ \E i \in 1..Len(calls) : FundMovingTool(calls[i].name))
       /\ nReq' = nReq + Len(calls)
  /\ toolResults' = <<>>
  /\ llmLog' = Append(llmLog, "tools")
  /\ pc' = "tools"
  /\ UNCHANGED <<profile, threads, server, clientWalletAddress, applied, droppedReqs, walletAddress, serverWalletAddress, peer, summaryOutcome, frozenCall, preExecLen, conversationHistory, pendingTransaction,
                 summaryTriggerMessages, summaryKeepMessages, op, iteration,
                 allToolCalls, prefixMessage, errorMsg, response, execLog,
                 preHistory, prePending, pendingReq, cancelledReqs, nOps, nFail>>

(***************************************************************************)
(* processAgentIteration, agent.ts 506-561: one requested invocation is    *)
(* looked at.  After the last one of the round the results are pushed      *)
(* (563-596) and the loop either calls the model again or stops (627-635). *)
(***************************************************************************)
\* variant: the fallback is built from the records of the last round only
MaxIterationsResponse_RoundOnly(calls) ==
  LET friendlyMessage ==
        IF Len(toolResults') > 0
        THEN generateFriendlyMessageFromToolResults(toolResults')
        ELSE [kind |-> "problem_fixed", text |-> "", body |-> <<>>]
  IN  Response(op,
        WithPrefix(friendlyMessage.kind, friendlyMessage.text,
                   friendlyMessage.body, Null),
        ToolCallsOrUndefined(calls), Null)

\* agent.ts 627-635: the bound is reached
MaxIterationsResponse(calls) ==
  LET friendlyMessage ==
        IF Len(calls) > 0
        THEN generateFriendlyMessageFromToolResults(calls)
        ELSE [kind |-> "problem_fixed", text |-> "", body |-> <<>>]
  IN  Response(op,
        WithPrefix(friendlyMessage.kind, friendlyMessage.text,
                   friendlyMessage.body, Null),
        ToolCallsOrUndefined(calls), Null)

\* variant: the loop test is iteration <= maxIterations
AfterInvocation_OneMoreRound(results, calls) ==
  /\ toolQueue' = Tail(toolQueue)
  /\ toolResults' = results
  /\ allToolCalls' = calls
  /\ IF Len(toolQueue) > 1
     THEN /\ pc' = "tools"
          /\ UNCHANGED <<conversationHistory, iteration, response>>
     ELSE /\ conversationHistory' =
               Append(conversationHistory, AIMessage("tool_results", "", results))
          /\ IF iteration <= maxIterations
             THEN /\ iteration' = iteration + 1
                  /\ pc' = "llm"
                  /\ UNCHANGED response
             ELSE /\ response' = MaxIterationsResponse(calls)
                  /\ pc' = "idle"
                  /\ UNCHANGED iteration

\* variant: a round without results appends no message
AfterInvocation_SkipsEmpty(results, calls) ==
  /\ toolQueue' = Tail(toolQueue)
  /\ toolResults' = results
  /\ allToolCalls' = calls
  /\ IF Len(toolQueue) > 1
     THEN /\ pc' = "tools"
          /\ UNCHANGED <<conversationHistory, iteration, response>>
     ELSE /\ conversationHistory' =
               (IF results = <<>> THEN conversationHistory
                ELSE Append(conversationHistory,
                            AIMessage("tool_results", "", results)))
          /\ IF iteration < maxIterations
             THEN /\ iteration' = iteration + 1
                  /\ pc' = "llm"
                  /\ UNCHANGED response
             ELSE /\ response' = MaxIterationsResponse(calls)
                  /\ pc' = "idle"
                  /\ UNCHANGED iteration

\* the step after an invocation was skipped or executed: results and calls
\* are the round's and the call's records after it
AfterInvocation(results, calls) ==
  /\ toolQueue' = Tail(toolQueue)
  /\ toolResults' = results
  /\ allToolCalls' = calls
  /\ IF Len(toolQueue) > 1
     THEN /\ pc' = "tools"
          /\ UNCHANGED <<conversationHistory, iteration, response>>
     ELSE /\ conversationHistory' =
               Append(conversationHistory, AIMessage("tool_results", "", results))
          /\ IF iteration < maxIterations
             THEN /\ iteration' = iteration + 1
                  /\ pc' = "llm"
                  /\ UNCHANGED response
             ELSE /\ response' = MaxIterationsResponse(calls)
                  /\ pc' = "idle"
                  /\ UNCHANGED iteration

\* agent.ts 507-508: the name is not in the registry
SkipUnresolvedTool ==
  /\ pc = "tools"
  /\ toolQueue # <<>>
  /\ ~ToolResolves(Head(toolQueue).name)
  /\ AfterInvocation(toolResults, allToolCalls)
  /\ UNCHANGED <<profile, threads, server, clientWalletAddress, applied, droppedReqs, walletAddress, serverWalletAddress, peer, summaryOutcome, frozenCall, preExecLen, fundRequested, pendingTransaction, summaryTriggerMessages,
                 summaryKeepMessages, op, prefixMessage, errorMsg, execLog,
                 llmLog, preHistory, prePending, pendingReq, cancelledReqs,
                 nOps, nReq, nFail>>

\* variant: the test of the pending slot is inverted
FreezesInvocation_WhenPending(name, pending) ==
  requiresConfirmation(name) /\ pending # Null

\* variant: the pending slot is not tested
FreezesInvocation_Always(name, pending) == requiresConfirmation(name)

\* agent.ts 514: the invocation is frozen instead of executed
FreezesInvocation(name, pending) ==
  requiresConfirmation(name) /\ pending = Null

\* variant: the arguments are replaced by those of the other request
PendingTransactionRecord_OtherArgs(toolCall, description) ==
  [toolName |-> toolCall.name,
   toolArgs |-> IF toolCall.args = "a1" THEN "a2" ELSE "a1",
   description |-> description]

\* agent.ts 517-521
PendingTransactionRecord(toolCall, description) ==
  [toolName |-> toolCall.name,
   toolArgs |-> toolCall.args,
   description |-> description]

\* variant: after the freeze the loop goes on with the rest of the round
FreezeTransaction_GoesOn ==
  /\ pc = "tools"
  /\ toolQueue # <<>>
  /\ ToolResolves(Head(toolQueue).name)
  /\ FreezesInvocation(Head(toolQueue).name, pendingTransaction)
  /\ \E balance \in Balances :
       LET toolCall == Head(toolQueue)
           description ==
             buildTransactionDescription(toolCall.name, toolCall.args, balance)
           pending == PendingTransactionRecord(toolCall, description)
       IN  /\ pendingTransaction' = Some(pending)
           /\ pendingReq' = toolCall.id
           /\ frozenCall' = Some([name |-> toolCall.name,
                                   args |-> toolCall.args])
           /\ droppedReqs' =
                droppedReqs \cup {toolQueue[i] : i \in 2..Len(toolQueue)}
  /\ AfterInvocation(toolResults, allToolCalls)
  /\ UNCHANGED <<profile, threads, server, clientWalletAddress, applied, walletAddress, serverWalletAddress, peer,
                 summaryOutcome, preExecLen, fundRequested,
                 summaryTriggerMessages, summaryKeepMessages, op,
                 prefixMessage, errorMsg, execLog, llmLog, preHistory,
                 prePending, cancelledReqs, nOps, nReq, nFail>>

\* variant: the record is made of the last fund-moving invocation of the round
FreezeTransaction_FreezesLast ==
  /\ pc = "tools"
  /\ toolQueue # <<>>
  /\ ToolResolves(Head(toolQueue).name)
  /\ FreezesInvocation(Head(toolQueue).name, pendingTransaction)
  /\ \E balance \in Balances :
       LET fundMoving == {i \in 1..Len(toolQueue) :
                           /\ ToolResolves(toolQueue[i].name)
                           /\ requiresConfirmation(toolQueue[i].name)}
           last == CHOOSE i \in fundMoving : \A j \in fundMoving : j <= i
           toolCall == toolQueue[last]
           description ==
             buildTransactionDescription(toolCall.name, toolCall.args, balance)
           pending == PendingTransactionRecord(toolCall, description)
       IN  /\ pendingTransaction' = Some(pending)
           /\ pendingReq' = toolCall.id
           /\ frozenCall' = Some([name |-> toolCall.name,
                                   args |-> toolCall.args])
           /\ droppedReqs' =
                droppedReqs \cup {toolQueue[i] : i \in 2..Len(toolQueue)}
           /\ response' = Response(op,
                WithPrefix("confirm_prompt", "", <<>>, Some(description)),
                ToolCallsOrUndefined(allToolCalls), Some(pending))
  /\ pc' = "idle"
  /\ UNCHANGED <<profile, threads, server, clientWalletAddress, applied, walletAddress, serverWalletAddress, peer, summaryOutcome, preExecLen, fundRequested, conversationHistory, summaryTriggerMessages,
                 summaryKeepMessages, op, iteration, allToolCalls, toolResults,
                 toolQueue, prefixMessage, errorMsg, execLog, llmLog,
                 preHistory, prePending, cancelledReqs, nOps, nReq, nFail>>

\* agent.ts 514-531
FreezeTransaction ==
  /\ pc = "tools"
  /\ toolQueue # <<>>
  /\ ToolResolves(Head(toolQueue).name)
  /\ FreezesInvocation(Head(toolQueue).name, pendingTransaction)
  /\ \E balance \in Balances :
       LET toolCall == Head(toolQueue)
           description ==
             buildTransactionDescription(toolCall.name, toolCall.args, balance)
           pending == PendingTransactionRecord(toolCall, description)
       IN  /\ pendingTransaction' = Some(pending)
           /\ pendingReq' = toolCall.id
           /\ frozenCall' = Some([name |-> toolCall.name,
                                   args |-> toolCall.args])
           /\ droppedReqs' =
                droppedReqs \cup {toolQueue[i] : i \in 2..Len(toolQueue)}
           /\ response' = Response(op,
                WithPrefix("confirm_prompt", "", <<>>, Some(description)),
                ToolCallsOrUndefined(allToolCalls), Some(pending))
  /\ pc' = "idle"
  /\ UNCHANGED <<profile, threads, server, clientWalletAddress, applied, walletAddress, serverWalletAddress, peer, summaryOutcome, preExecLen, fundRequested, conversationHistory, summaryTriggerMessages,
                 summaryKeepMessages, op, iteration, allToolCalls, toolResults,
                 toolQueue, prefixMessage, errorMsg, execLog, llmLog,
                 preHistory, prePending, cancelledReqs, nOps, nReq, nFail>>

\* variant: a failed invocation is left out of the cumulative tool calls
InvokeTool_ErrorNotAccumulated ==
  /\ pc = "tools"
  /\ toolQueue # <<>>
  /\ ToolResolves(Head(toolQueue).name)
  /\ ~FreezesInvocation(Head(toolQueue).name, pendingTransaction)
  /\ \E ok \in BOOLEAN :
       LET toolCall == Head(toolQueue)
           result ==
             IF ok
             THEN formatText(toolCall.name,
                                   ToolOutput(toolCall.name, toolCall.args))
             ELSE IF CatchesOwnFailure(toolCall.name)
             THEN formatText(toolCall.name,
                                   FailureOutput(toolCall.name, toolCall.args))
             ELSE ErrorResult(ToolErrorMessage)
           record == ToolCallRecord(toolCall.name, result)
       IN  /\ (~ok) => nFail < FailuresBudget
           /\ nFail' = IF ok THEN nFail ELSE nFail + 1
           /\ execLog' = Append(execLog,
                InvocationEntry(toolCall.name, toolCall.args, "loop",
                                toolCall.id, ok))
           /\ AfterInvocation(Append(toolResults, record),
                              IF ok THEN Append(allToolCalls, record)
                              ELSE allToolCalls)
  /\ UNCHANGED <<profile, threads, server, clientWalletAddress, applied, droppedReqs, walletAddress, serverWalletAddress, peer, summaryOutcome, frozenCall, preExecLen, fundRequested, pendingTransaction, summaryTriggerMessages,
                 summaryKeepMessages, op, prefixMessage, errorMsg, llmLog,
                 preHistory, prePending, pendingReq, cancelledReqs, nOps, nReq>>

\* agent.ts 534-559
InvokeTool ==
  /\ pc = "tools"
  /\ toolQueue # <<>>
  /\ ToolResolves(Head(toolQueue).name)
  /\ ~FreezesInvocation(Head(toolQueue).name, pendingTransaction)
  /\ \E ok \in BOOLEAN :
       LET toolCall == Head(toolQueue)
           result ==
             IF ok
             THEN formatText(toolCall.name,
                                   ToolOutput(toolCall.name, toolCall.args))
             ELSE IF CatchesOwnFailure(toolCall.name)
             THEN formatText(toolCall.name,
                                   FailureOutput(toolCall.name, toolCall.args))
             ELSE ErrorResult(ToolErrorMessage)
           record == ToolCallRecord(toolCall.name, result)
       IN  /\ (~ok) => nFail < FailuresBudget
           /\ nFail' = IF ok THEN nFail ELSE nFail + 1
           /\ execLog' = Append(execLog,
                InvocationEntry(toolCall.name, toolCall.args, "loop",
                                toolCall.id, ok))
           /\ AfterInvocation(Append(toolResults, record),
                              Append(allToolCalls, record))
  /\ UNCHANGED <<profile, threads, server, clientWalletAddress, applied, droppedReqs, walletAddress, serverWalletAddress, peer, summaryOutcome, frozenCall, preExecLen, fundRequested, pendingTransaction, summaryTriggerMessages,
                 summaryKeepMessages, op, prefixMessage, errorMsg, llmLog,
                 preHistory, prePending, pendingReq, cancelledReqs, nOps, nReq>>

(***************************************************************************)
(* chat, agent.ts 651-680: the call that explains a failure returns.       *)
(***************************************************************************)
ExplainOutcomes == {"text", "not_text", "raises"}

\* variant: the apologetic template is returned but not recorded
ExplainError_SorryNotRecorded ==
  /\ pc = "explain"
  /\ \E outcome \in ExplainOutcomes :
       LET kind == CASE outcome = "text" -> "error_explained"
                     [] outcome = "not_text" -> "error_encountered"
                     [] OTHER -> "error_sorry"
           text == IF outcome = "text" THEN "explanation" ELSE errorMsg
       IN  /\ (outcome = "raises") => nFail < FailuresBudget
           /\ nFail' = IF outcome = "raises" THEN nFail + 1 ELSE nFail
           /\ conversationHistory' =
                (IF outcome = "raises" THEN conversationHistory
                 ELSE Append(conversationHistory, AIMessage(kind, text, <<>>)))
           /\ response' = Response(op,
                ResponseMessage(kind, Null, text, <<>>, Null), Null, Null)
           /\ llmLog' = Append(llmLog, IF outcome = "raises"
                                       THEN "explain_raise" ELSE "explain")
  /\ pc' = "idle"
  /\ UNCHANGED <<profile, threads, server, clientWalletAddress, applied, droppedReqs, walletAddress, serverWalletAddress, peer, summaryOutcome, frozenCall, preExecLen, fundRequested, pendingTransaction, summaryTriggerMessages,
                 summaryKeepMessages, op, iteration, allToolCalls, toolResults,
                 toolQueue, prefixMessage, errorMsg, execLog, preHistory,
                 prePending, pendingReq, cancelledReqs, nOps, nReq>>

ExplainError ==
  /\ pc = "explain"
  /\ \E outcome \in ExplainOutcomes :
       LET kind == CASE outcome = "text" -> "error_explained"
                     [] outcome = "not_text" -> "error_encountered"
                     [] OTHER -> "error_sorry"
           text == IF outcome = "text" THEN "explanation" ELSE errorMsg
       IN  /\ (outcome = "raises") => nFail < FailuresBudget
           /\ nFail' = IF outcome = "raises" THEN nFail + 1 ELSE nFail
           /\ conversationHistory' =
                Append(conversationHistory, AIMessage(kind, text, <<>>))
           /\ response' = Response(op,
                ResponseMessage(kind, Null, text, <<>>, Null), Null, Null)
           /\ llmLog' = Append(llmLog, IF outcome = "raises"
                                       THEN "explain_raise" ELSE "explain")
  /\ pc' = "idle"
  /\ UNCHANGED <<profile, threads, server, clientWalletAddress, applied, droppedReqs, walletAddress, serverWalletAddress, peer, summaryOutcome, frozenCall, preExecLen, fundRequested, pendingTransaction, summaryTriggerMessages,
                 summaryKeepMessages, op, iteration, allToolCalls, toolResults,
                 toolQueue, prefixMessage, errorMsg, execLog, preHistory,
                 prePending, pendingReq, cancelledReqs, nOps, nReq>>

(***************************************************************************)
(* confirmTransaction, agent.ts 771-813.                                   *)
(***************************************************************************)
\* agent.ts 772-774
ConfirmNothingPending ==
  /\ pc = "idle"
  /\ nOps < OpsBudget
  /\ pendingTransaction = Null
  /\ op' = "confirm"
  /\ response' = Response("confirm",
       ResponseMessage("nothing_pending", Null, "", <<>>, Null), Null, Null)
  /\ llmLog' = <<>>
  /\ preHistory' = conversationHistory
  /\ prePending' = pendingTransaction
  /\ preExecLen' = Len(execLog)
  /\ fundRequested' = FALSE
  /\ nOps' = nOps + 1
  /\ UNCHANGED <<profile, threads, server, clientWalletAddress, applied, droppedReqs, walletAddress, serverWalletAddress, peer, summaryOutcome, frozenCall, conversationHistory, pendingTransaction,
                 summaryTriggerMessages, summaryKeepMessages, pc, iteration,
                 allToolCalls, toolResults, toolQueue, prefixMessage, errorMsg,
                 execLog, pendingReq, cancelledReqs, nReq, nFail>>

\* variant: a record whose description carries the warning is dropped
ConfirmTransaction_RefusesOnWarning ==
  /\ pc = "idle"
  /\ nOps < OpsBudget
  /\ pendingTransaction # Null
  /\ op' = "confirm"
  /\ IF /\ pendingTransaction[1].toolName \in tools
        /\ ~pendingTransaction[1].description.warning
     THEN /\ pc' = "confirm_invoke"
          /\ UNCHANGED <<pendingTransaction, response>>
     ELSE /\ pendingTransaction' = Null
          /\ response' = Response("confirm",
               ResponseMessage("tool_not_found", Null, "", <<>>, Null),
               Null, Null)
          /\ pc' = "idle"
  /\ llmLog' = <<>>
  /\ preHistory' = conversationHistory
  /\ prePending' = pendingTransaction
  /\ preExecLen' = Len(execLog)
  /\ fundRequested' = FALSE
  /\ nOps' = nOps + 1
  /\ UNCHANGED <<profile, threads, server, clientWalletAddress, applied, droppedReqs, walletAddress, serverWalletAddress, peer, summaryOutcome, frozenCall, conversationHistory, summaryTriggerMessages,
                 summaryKeepMessages, iteration, allToolCalls, toolResults,
                 toolQueue, prefixMessage, errorMsg, execLog, pendingReq,
                 cancelledReqs, nReq, nFail>>

\* agent.ts 776-786: the frozen tool is looked up and invoked
ConfirmTransaction ==
  /\ pc = "idle"
  /\ nOps < OpsBudget
  /\ pendingTransaction # Null
  /\ op' = "confirm"
  /\ IF pendingTransaction[1].toolName \in tools
     THEN /\ pc' = "confirm_invoke"
          /\ UNCHANGED <<pendingTransaction, response>>
     ELSE /\ pendingTransaction' = Null
          /\ response' = Response("confirm",
               ResponseMessage("tool_not_found", Null, "", <<>>, Null),
               Null, Null)
          /\ pc' = "idle"
  /\ llmLog' = <<>>
  /\ preHistory' = conversationHistory
  /\ prePending' = pendingTransaction
  /\ preExecLen' = Len(execLog)
  /\ fundRequested' = FALSE
  /\ nOps' = nOps + 1
  /\ UNCHANGED <<profile, threads, server, clientWalletAddress, applied, droppedReqs, walletAddress, serverWalletAddress, peer, summaryOutcome, frozenCall, conversationHistory, summaryTriggerMessages,
                 summaryKeepMessages, iteration, allToolCalls, toolResults,
                 toolQueue, prefixMessage, errorMsg, execLog, pendingReq,
                 cancelledReqs, nReq, nFail>>

\* variant: the resumed loop starts without the record of the transaction
InitialToolCalls_Empty(toolName, formattedResult) == <<>>

\* agent.ts 801-804: initialToolCalls of the resumed loop
InitialToolCalls(toolName, formattedResult) ==
  <<ToolCallRecord(toolName, formattedResult)>>

\* agent.ts 786-805: the tool returned; the loop is resumed
ConfirmToolSucceeds ==
  /\ pc = "confirm_invoke"
  /\ \E sent \in BOOLEAN :
     LET toolName == pendingTransaction[1].toolName
         toolArgs == pendingTransaction[1].toolArgs
         formattedResult ==
           formatText(toolName,
                            IF sent THEN ToolOutput(toolName, toolArgs)
                            ELSE FailureOutput(toolName, toolArgs))
     IN  /\ (~sent) => (CatchesOwnFailure(toolName) /\ nFail < FailuresBudget)
         /\ nFail' = IF sent THEN nFail ELSE nFail + 1
         /\ execLog' = Append(execLog,
              InvocationEntry(toolName, toolArgs, "confirm", pendingReq, sent))
         /\ pendingTransaction' = Null
         /\ conversationHistory' =
              Append(conversationHistory,
                     AIMessage("tx_confirmed", "",
                               <<ToolCallRecord(toolName, formattedResult)>>))
         /\ prefixMessage' = Some(formattedResult)
         /\ allToolCalls' = InitialToolCalls(toolName, formattedResult)
  /\ iteration' = 1
  /\ toolResults' = <<>>
  /\ toolQueue' = <<>>
  /\ pc' = "llm"
  /\ UNCHANGED <<profile, threads, server, clientWalletAddress, applied, droppedReqs, walletAddress, serverWalletAddress, peer, summaryOutcome, frozenCall, preExecLen, fundRequested, summaryTriggerMessages, summaryKeepMessages, op, errorMsg,
                 response, llmLog, preHistory, prePending, pendingReq,
                 cancelledReqs, nOps, nReq>>

\* variant: the failure path leaves the pending record in place
ConfirmToolRaises_KeepsPending ==
  /\ pc = "confirm_invoke"
  /\ ~CatchesOwnFailure(pendingTransaction[1].toolName)
  /\ nFail < FailuresBudget
  /\ nFail' = nFail + 1
  /\ execLog' = Append(execLog,
       ExecEntry(pendingTransaction[1].toolName, pendingTransaction[1].toolArgs,
                 "confirm", pendingReq, FALSE))
  /\ pendingTransaction' = pendingTransaction
  /\ response' = Response("confirm",
       ResponseMessage("tx_failed", Null, ToolErrorMessage, <<>>, Null),
       Null, Null)
  /\ pc' = "idle"
  /\ UNCHANGED <<profile, threads, server, clientWalletAddress, applied, droppedReqs, walletAddress, serverWalletAddress, peer, summaryOutcome, frozenCall, preExecLen, fundRequested, conversationHistory, summaryTriggerMessages,
                 summaryKeepMessages, op, iteration, allToolCalls, toolResults,
                 toolQueue, prefixMessage, errorMsg, llmLog, preHistory,
                 prePending, pendingReq, cancelledReqs, nOps, nReq>>

\* agent.ts 806-812: the tool raised
ConfirmToolRaises ==
  /\ pc = "confirm_invoke"
  /\ ~CatchesOwnFailure(pendingTransaction[1].toolName)
  /\ nFail < FailuresBudget
  /\ nFail' = nFail + 1
  /\ execLog' = Append(execLog,
       ExecEntry(pendingTransaction[1].toolName, pendingTransaction[1].toolArgs,
                 "confirm", pendingReq, FALSE))
  /\ pendingTransaction' = Null
  /\ response' = Response("confirm",
       ResponseMessage("tx_failed", Null, ToolErrorMessage, <<>>, Null),
       Null, Null)
  /\ pc' = "idle"
  /\ UNCHANGED <<profile, threads, server, clientWalletAddress, applied, droppedReqs, walletAddress, serverWalletAddress, peer, summaryOutcome, frozenCall, preExecLen, fundRequested, conversationHistory, summaryTriggerMessages,
                 summaryKeepMessages, op, iteration, allToolCalls, toolResults,
                 toolQueue, prefixMessage, errorMsg, llmLog, preHistory,
                 prePending, pendingReq, cancelledReqs, nOps, nReq>>

(***************************************************************************)
(* cancelTransaction, agent.ts 818-834.                                    *)
(***************************************************************************)
\* variant: the pending record is not cleared
CancelTransaction_KeepsPending ==
  /\ pc = "idle"
  /\ nOps < OpsBudget
  /\ op' = "cancel"
  /\ IF pendingTransaction = Null
     THEN /\ response' = Response("cancel",
               ResponseMessage("nothing_pending", Null, "", <<>>, Null),
               Null, Null)
          /\ UNCHANGED <<pendingTransaction, conversationHistory, cancelledReqs>>
     ELSE /\ pendingTransaction' = pendingTransaction
          /\ conversationHistory' =
               Append(conversationHistory, AIMessage("cancel_note", "", <<>>))
          /\ response' = Response("cancel",
               ResponseMessage("cancelled", Null, "", <<>>,
                               Some(pendingTransaction[1].description)),
               Null, Null)
          /\ cancelledReqs' = cancelledReqs \cup {pendingReq}
  /\ llmLog' = <<>>
  /\ preHistory' = conversationHistory
  /\ prePending' = pendingTransaction
  /\ preExecLen' = Len(execLog)
  /\ fundRequested' = FALSE
  /\ nOps' = nOps + 1
  /\ UNCHANGED <<profile, threads, server, clientWalletAddress, applied, droppedReqs, walletAddress, serverWalletAddress, peer, summaryOutcome, frozenCall, summaryTriggerMessages, summaryKeepMessages, pc, iteration,
                 allToolCalls, toolResults, toolQueue, prefixMessage, errorMsg,
                 execLog, pendingReq, nReq, nFail>>

\* variant: the test of the pending slot is missing
CancelTransaction_NoGuard ==
  /\ pc = "idle"
  /\ nOps < OpsBudget
  /\ op' = "cancel"
  /\ IF FALSE
     THEN /\ response' = Response("cancel",
               ResponseMessage("nothing_pending", Null, "", <<>>, Null),
               Null, Null)
          /\ UNCHANGED <<pendingTransaction, conversationHistory, cancelledReqs>>
     ELSE /\ pendingTransaction' = Null
          /\ conversationHistory' =
               Append(conversationHistory, AIMessage("cancel_note", "", <<>>))
          /\ response' = Response("cancel",
               ResponseMessage("cancelled", Null, "", <<>>,
                               IF pendingTransaction = Null THEN Null
                               ELSE Some(pendingTransaction[1].description)),
               Null, Null)
          /\ cancelledReqs' = cancelledReqs \cup {pendingReq}
  /\ llmLog' = <<>>
  /\ preHistory' = conversationHistory
  /\ prePending' = pendingTransaction
  /\ preExecLen' = Len(execLog)
  /\ fundRequested' = FALSE
  /\ nOps' = nOps + 1
  /\ UNCHANGED <<profile, threads, server, clientWalletAddress, applied, droppedReqs, walletAddress, serverWalletAddress, peer, summaryOutcome, frozenCall, summaryTriggerMessages, summaryKeepMessages, pc, iteration,
                 allToolCalls, toolResults, toolQueue, prefixMessage, errorMsg,
                 execLog, pendingReq, nReq, nFail>>

\* variant: the note is written over the last message
CancelTransaction_ReplacesLast ==
  /\ pc = "idle"
  /\ nOps < OpsBudget
  /\ op' = "cancel"
  /\ IF pendingTransaction = Null
     THEN /\ response' = Response("cancel",
               ResponseMessage("nothing_pending", Null, "", <<>>, Null),
               Null, Null)
          /\ UNCHANGED <<pendingTransaction, conversationHistory, cancelledReqs>>
     ELSE /\ pendingTransaction' = Null
          /\ conversationHistory' =
               Append(SubSeq(conversationHistory, 1, Len(conversationHistory) - 1),
                      AIMessage("cancel_note", "", <<>>))
          /\ response' = Response("cancel",
               ResponseMessage("cancelled", Null, "", <<>>,
                               Some(pendingTransaction[1].description)),
               Null, Null)
          /\ cancelledReqs' = cancelledReqs \cup {pendingReq}
  /\ llmLog' = <<>>
  /\ preHistory' = conversationHistory
  /\ prePending' = pendingTransaction
  /\ preExecLen' = Len(execLog)
  /\ fundRequested' = FALSE
  /\ nOps' = nOps + 1
  /\ UNCHANGED <<profile, threads, server, clientWalletAddress, applied, droppedReqs, walletAddress, serverWalletAddress, peer, summaryOutcome, frozenCall, summaryTriggerMessages, summaryKeepMessages, pc, iteration,
                 allToolCalls, toolResults, toolQueue, prefixMessage, errorMsg,
                 execLog, pendingReq, nReq, nFail>>

\* agent.ts 818-834
CancelTransaction ==
  /\ pc = "idle"
  /\ nOps < OpsBudget
  /\ op' = "cancel"
  /\ IF pendingTransaction = Null
     THEN /\ response' = Response("cancel",
               ResponseMessage("nothing_pending", Null, "", <<>>, Null),
               Null, Null)
          /\ UNCHANGED <<pendingTransaction, conversationHistory, cancelledReqs>>
     ELSE /\ pendingTransaction' = Null
          /\ conversationHistory' =
               Append(conversationHistory, AIMessage("cancel_note", "", <<>>))
          /\ response' = Response("cancel",
               ResponseMessage("cancelled", Null, "", <<>>,
                               Some(pendingTransaction[1].description)),
               Null, Null)
          /\ cancelledReqs' = cancelledReqs \cup {pendingReq}
  /\ llmLog' = <<>>
  /\ preHistory' = conversationHistory
  /\ prePending' = pendingTransaction
  /\ preExecLen' = Len(execLog)
  /\ fundRequested' = FALSE
  /\ nOps' = nOps + 1
  /\ UNCHANGED <<profile, threads, server, clientWalletAddress, applied, droppedReqs, walletAddress, serverWalletAddress, peer, summaryOutcome, frozenCall, summaryTriggerMessages, summaryKeepMessages, pc, iteration,
                 allToolCalls, toolResults, toolQueue, prefixMessage, errorMsg,
                 execLog, pendingReq, nReq, nFail>>

\* agent.ts 764-766
hasPendingTransaction == pendingTransaction # Null

\* variant: clearing the history also empties the pending slot
ClearHistory_DropsPending ==
  /\ pc = "idle"
  /\ nOps < OpsBudget
  /\ op' = "clear"
  /\ conversationHistory' = <<SystemPromptMessage>>
  /\ pendingTransaction' = Null
  /\ response' = NoResponse
  /\ llmLog' = <<>>
  /\ preHistory' = conversationHistory
  /\ prePending' = pendingTransaction
  /\ preExecLen' = Len(execLog)
  /\ fundRequested' = FALSE
  /\ nOps' = nOps + 1
  /\ UNCHANGED <<profile, threads, server, clientWalletAddress, applied, droppedReqs, walletAddress, serverWalletAddress, peer, summaryOutcome, frozenCall, summaryTriggerMessages,
                 summaryKeepMessages, pc, iteration, allToolCalls, toolResults,
                 toolQueue, prefixMessage, errorMsg, execLog, pendingReq,
                 cancelledReqs, nReq, nFail>>

(***************************************************************************)
(* clearHistory, agent.ts 693-695.                                         *)
(***************************************************************************)
ClearHistory ==
  /\ pc = "idle"
  /\ nOps < OpsBudget
  /\ op' = "clear"
  /\ conversationHistory' = <<SystemPromptMessage>>
  /\ response' = NoResponse
  /\ llmLog' = <<>>
  /\ preHistory' = conversationHistory
  /\ prePending' = pendingTransaction
  /\ preExecLen' = Len(execLog)
  /\ fundRequested' = FALSE
  /\ nOps' = nOps + 1
  /\ UNCHANGED <<profile, threads, server, clientWalletAddress, applied, droppedReqs, walletAddress, serverWalletAddress, peer, summaryOutcome, frozenCall, pendingTransaction, summaryTriggerMessages,
                 summaryKeepMessages, pc, iteration, allToolCalls, toolResults,
                 toolQueue, prefixMessage, errorMsg, execLog, pendingReq,
                 cancelledReqs, nReq, nFail>>

\* one call of formatToolResult on a raw result, as agent.ts 538 and 787
\* make it; an exception leaves the caller through its catch
FormatToolResult ==
  /\ profile = "tool_results"
  /\ applied.fn = "none"
  /\ applied' = [applied EXCEPT
                   !.fn = "formatToolResult",
                   !.outcome = formatToolResult(applied.toolName,
                                                applied.input)]
  /\ UNCHANGED <<profile, threads, server, clientWalletAddress, droppedReqs,
                 walletAddress, serverWalletAddress, peer, summaryOutcome,
                 frozenCall, conversationHistory, pendingTransaction,
                 summaryTriggerMessages, summaryKeepMessages, pc, op,
                 iteration, allToolCalls, toolResults, toolQueue,
                 prefixMessage, errorMsg, response, execLog, llmLog,
                 preHistory, prePending, preExecLen, fundRequested,
                 pendingReq, cancelledReqs, nOps, nReq, nFail>>

Next ==
  \/ FormatToolResult
  \/ DeleteClientWallet
  \/ PostClientWallet
  \/ SetClientWalletAddress
  \/ SetServerWalletAddress
  \/ Initialize
  \/ PeerInitialize
  \/ Chat
  \/ LLMFails
  \/ LLMAnswers
  \/ LLMRequestsTools
  \/ SkipUnresolvedTool
  \/ FreezeTransaction
  \/ InvokeTool
  \/ ExplainError
  \/ ConfirmNothingPending
  \/ ConfirmTransaction
  \/ ConfirmToolSucceeds
  \/ ConfirmToolRaises
  \/ CancelTransaction
  \/ ClearHistory

Spec == Init /\ [][Next]_vars

(***************************************************************************)
(* Overlapping calls on one agent.  The methods of the agent are async:    *)
(* a call runs until its next await (the model call agent.ts 499, the      *)
(* balance fetch inside buildTransactionDescription 515 and 748, the tool  *)
(* call 536 and 786) and another call may run in between.  Each call in    *)
(* progress is a thread with its position and its locals; the fields of    *)
(* the agent are shared.  In these runs the model calls do not fail and a  *)
(* call has at most one round of one invocation.                           *)
(***************************************************************************)
\* the two callers whose calls overlap (a browser tab each, say)
Threads == {"caller1", "caller2"}

IdleThread ==
  [kind |-> "none", pc |-> "idle", toolCall |-> Null, rounds |-> 0,
   response |-> Null]

\* a new agent (agent.ts 155-168) with the calls or requests in progress
InitWith(family, inProgress) ==
  /\ profile = family
  /\ threads = inProgress
  /\ conversationHistory = <<SystemPromptMessage>>
  /\ pendingTransaction = Null
  /\ frozenCall = Null
  /\ summaryTriggerMessages = DefaultSummaryTriggerMessages
  /\ summaryKeepMessages = DefaultSummaryKeepMessages
  /\ summaryOutcome = "none"
  /\ server = NoServer
  /\ clientWalletAddress = Null
  /\ applied = NotApplied
  /\ droppedReqs = {}
  /\ walletAddress = ""
  /\ serverWalletAddress = Null
  /\ peer = [walletAddress |-> "",
             conversationHistory |-> <<SystemPromptMessage>>,
             pendingTransaction |-> Null]
  /\ pc = family
  /\ op = "none"
  /\ iteration = 0
  /\ allToolCalls = <<>>
  /\ toolResults = <<>>
  /\ toolQueue = <<>>
  /\ prefixMessage = Null
  /\ errorMsg = ""
  /\ response = NoResponse
  /\ execLog = <<>>
  /\ llmLog = <<>>
  /\ preHistory = <<>>
  /\ prePending = Null
  /\ preExecLen = 0
  /\ fundRequested = FALSE
  /\ pendingReq = 0
  /\ cancelledReqs = {}
  /\ nOps = 0
  /\ nReq = 0
  /\ nFail = 0

InitOverlap == InitWith("overlap", [t \in Threads |-> IdleThread])

\* what the overlapping calls leave alone
notOverlapVars ==
  <<profile, summaryTriggerMessages, summaryKeepMessages, summaryOutcome,
    server, clientWalletAddress, applied, droppedReqs, walletAddress,
    serverWalletAddress, peer, pc, op, iteration, allToolCalls, toolResults,
    toolQueue, prefixMessage, errorMsg, response, llmLog, preHistory,
    prePending, preExecLen, fundRequested>>

ThreadFree(t) ==
  /\ threads[t].pc \in {"idle", "done"}
  /\ nOps < MaxOverlapOps

ThreadResponse(kind, pending) == Some([kind |-> kind, pendingTransaction |-> pending])

\* chat, agent.ts 646-650, up to the model call
OverlapChat(t) ==
  /\ ThreadFree(t)
  /\ conversationHistory' = Append(conversationHistory, HumanMessage)
  /\ threads' = [threads EXCEPT ![t] =
       [kind |-> "chat", pc |-> "llm", toolCall |-> Null, rounds |-> 0,
        response |-> Null]]
  /\ nOps' = nOps + 1
  /\ UNCHANGED <<notOverlapVars, pendingTransaction, frozenCall, execLog,
                 pendingReq, cancelledReqs, nReq, nFail>>

\* agent.ts 599-624: the model answers with text
OverlapLLMAnswers(t) ==
  /\ threads[t].pc = "llm"
  /\ conversationHistory' =
       Append(conversationHistory, AIMessage("content", "friendly", <<>>))
  /\ threads' = [threads EXCEPT ![t].pc = "done",
                                ![t].response = ThreadResponse("content", Null)]
  /\ UNCHANGED <<notOverlapVars, nOps, pendingTransaction, frozenCall, execLog,
                 pendingReq, cancelledReqs, nReq, nFail>>

OverlapInvocations ==
  {[name |-> "get_balance", args |-> "a1"],
   [name |-> "native_transfer", args |-> "a1"],
   [name |-> "native_transfer", args |-> "a2"]}

\* agent.ts 502-515 and 534-536: the model requests an invocation; the test
\* of line 514 is made and the call waits for the description or the tool
OverlapLLMRequestsTool(t) ==
  /\ threads[t].pc = "llm"
  /\ threads[t].rounds < 1
  /\ \E inv \in OverlapInvocations :
       /\ ToolResolves(inv.name)
       /\ threads' = [threads EXCEPT
            ![t].toolCall = Some([name |-> inv.name, args |-> inv.args,
                                  id |-> nReq + 1]),
            ![t].rounds = 1,
            ![t].pc = IF FreezesInvocation(inv.name, pendingTransaction)
                      THEN "describe" ELSE "invoke"]
  /\ nReq' = nReq + 1
  /\ UNCHANGED <<notOverlapVars, nOps, conversationHistory, pendingTransaction,
                 frozenCall, execLog, pendingReq, cancelledReqs, nFail>>

\* agent.ts 515-531: the description is built; the slot is assigned and the
\* call returns
OverlapFreezeTransaction(t) ==
  /\ threads[t].pc = "describe"
  /\ \E balance \in Balances :
       LET toolCall == threads[t].toolCall[1]
           description ==
             buildTransactionDescription(toolCall.name, toolCall.args, balance)
           pending == PendingTransactionRecord(toolCall, description)
       IN  /\ pendingTransaction' = Some(pending)
           /\ pendingReq' = toolCall.id
           /\ frozenCall' = Some([name |-> toolCall.name,
                                   args |-> toolCall.args])
           /\ threads' = [threads EXCEPT
                ![t].pc = "done",
                ![t].response = ThreadResponse("confirm_prompt", Some(pending))]
  /\ UNCHANGED <<notOverlapVars, nOps, conversationHistory, execLog, cancelledReqs,
                 nReq, nFail>>

\* agent.ts 534-596: the tool returns or raises; the results are pushed and
\* the model is called again
OverlapInvokeTool(t) ==
  /\ threads[t].pc = "invoke"
  /\ \E ok \in BOOLEAN :
       LET toolCall == threads[t].toolCall[1]
           result == IF ok
                     THEN formatText(toolCall.name,
                            ToolOutput(toolCall.name, toolCall.args))
                     ELSE ErrorResult(ToolErrorMessage)
       IN  /\ (~ok) => nFail < 1
           /\ nFail' = IF ok THEN nFail ELSE nFail + 1
           /\ execLog' = Append(execLog,
                InvocationEntry(toolCall.name, toolCall.args, "loop",
                                toolCall.id, ok))
           /\ conversationHistory' =
                Append(conversationHistory,
                       AIMessage("tool_results", "",
                                 <<ToolCallRecord(toolCall.name, result)>>))
  /\ threads' = [threads EXCEPT ![t].pc = "llm"]
  /\ UNCHANGED <<notOverlapVars, nOps, pendingTransaction, frozenCall, pendingReq,
                 cancelledReqs, nReq>>

\* agent.ts 771-786: confirmTransaction up to the call of the tool
OverlapConfirm(t) ==
  /\ ThreadFree(t)
  /\ IF pendingTransaction = Null
     THEN threads' = [threads EXCEPT ![t] =
            [kind |-> "confirm", pc |-> "done", toolCall |-> Null,
             rounds |-> 0,
             response |-> ThreadResponse("nothing_pending", Null)]]
     ELSE threads' = [threads EXCEPT ![t] =
            [kind |-> "confirm", pc |-> "confirm_invoke",
             toolCall |-> Some([name |-> pendingTransaction[1].toolName,
                                args |-> pendingTransaction[1].toolArgs,
                                id |-> pendingReq]),
             rounds |-> 0,
             response |-> Null]]
  /\ nOps' = nOps + 1
  /\ UNCHANGED <<notOverlapVars, conversationHistory, pendingTransaction,
                 frozenCall, execLog, pendingReq, cancelledReqs, nReq, nFail>>

\* agent.ts 786-805: the tool returned; the slot is cleared and the loop is
\* resumed
OverlapConfirmToolSucceeds(t) ==
  /\ threads[t].pc = "confirm_invoke"
  /\ LET toolCall == threads[t].toolCall[1]
         formattedResult ==
           formatText(toolCall.name,
                            ToolOutput(toolCall.name, toolCall.args))
     IN  /\ execLog' = Append(execLog,
              InvocationEntry(toolCall.name, toolCall.args, "confirm",
                              toolCall.id, TRUE))
         /\ conversationHistory' =
              Append(conversationHistory,
                     AIMessage("tx_confirmed", "",
                               <<ToolCallRecord(toolCall.name, formattedResult)>>))
  /\ pendingTransaction' = Null
  /\ threads' = [threads EXCEPT ![t].pc = "llm"]
  /\ UNCHANGED <<notOverlapVars, nOps, frozenCall, pendingReq, cancelledReqs, nReq,
                 nFail>>

\* agent.ts 806-812: the tool raised
OverlapConfirmToolRaises(t) ==
  /\ threads[t].pc = "confirm_invoke"
  /\ nFail < 1
  /\ nFail' = nFail + 1
  /\ LET toolCall == threads[t].toolCall[1]
     IN  execLog' = Append(execLog,
           InvocationEntry(toolCall.name, toolCall.args, "confirm",
                           toolCall.id, FALSE))
  /\ pendingTransaction' = Null
  /\ threads' = [threads EXCEPT ![t].pc = "done",
                                ![t].response = ThreadResponse("tx_failed", Null)]
  /\ UNCHANGED <<notOverlapVars, nOps, conversationHistory, frozenCall, pendingReq,
                 cancelledReqs, nReq>>

\* cancelTransaction, agent.ts 818-834: it has no await
OverlapCancel(t) ==
  /\ ThreadFree(t)
  /\ IF pendingTransaction = Null
     THEN /\ threads' = [threads EXCEPT ![t] =
               [kind |-> "cancel", pc |-> "done", toolCall |-> Null,
                rounds |-> 0,
                response |-> ThreadResponse("nothing_pending", Null)]]
          /\ UNCHANGED <<pendingTransaction, conversationHistory, cancelledReqs>>
     ELSE /\ pendingTransaction' = Null
          /\ conversationHistory' =
               Append(conversationHistory, AIMessage("cancel_note", "", <<>>))
          /\ cancelledReqs' = cancelledReqs \cup {pendingReq}
          /\ threads' = [threads EXCEPT ![t] =
               [kind |-> "cancel", pc |-> "done", toolCall |-> Null,
                rounds |-> 0,
                response |-> ThreadResponse("cancelled", Null)]]
  /\ nOps' = nOps + 1
  /\ UNCHANGED <<notOverlapVars, frozenCall, execLog, pendingReq, nReq, nFail>>

NextOverlap ==
  \/ \E t \in Threads : OverlapChat(t)
  \/ \E t \in Threads : OverlapLLMAnswers(t)
  \/ \E t \in Threads : OverlapLLMRequestsTool(t)
  \/ \E t \in Threads : OverlapFreezeTransaction(t)
  \/ \E t \in Threads : OverlapInvokeTool(t)
  \/ \E t \in Threads : OverlapConfirm(t)
  \/ \E t \in Threads : OverlapConfirmToolSucceeds(t)
  \/ \E t \in Threads : OverlapConfirmToolRaises(t)
  \/ \E t \in Threads : OverlapCancel(t)

SpecOverlap == InitOverlap /\ [][NextOverlap]_vars

(***************************************************************************)
(* The HTTP server, server.ts: the module-level agent and agentInitialized *)
(* and the routes that assign them.  A route runs until its next await     *)
(* (agent.initialize() at lines 84 and 349) and other requests may run in  *)
(* between.  Instances are numbered as they are created; a request is a    *)
(* thread with the instance it created and, for /api/chat, the instance    *)
(* chat was called on and whether that instance was initialized then.      *)
(***************************************************************************)
Requests == 1..MaxServerRequests

IdleRequest ==
  [kind |-> "none", pc |-> "idle", instance |-> 0, chatOn |-> 0,
   chatOnInitialized |-> FALSE]

InitServer == InitWith("server", [r \in Requests |-> IdleRequest])

notServerVars ==
  <<profile, conversationHistory, pendingTransaction, frozenCall,
    summaryTriggerMessages, summaryKeepMessages, summaryOutcome,
    clientWalletAddress, applied, droppedReqs, walletAddress,
    serverWalletAddress, peer, pc, op, iteration, allToolCalls, toolResults, toolQueue,
    prefixMessage, errorMsg, response, execLog, llmLog, preHistory,
    prePending, preExecLen, fundRequested, pendingReq, cancelledReqs, nOps,
    nReq, nFail>>

\* server.ts 74-76: initializeAgent has nothing to do
AlreadyInitialized == server.agentInitialized /\ server.agent # Null

\* server.ts 83: agent = new CoinbaseAgent(), also 348
WithNewAgent ==
  [server EXCEPT !.agent = Some(server.created + 1),
                 !.created = server.created + 1]

\* server.ts 84-85 and 349-350: initialize() of the instance completed
WithInitialized(instance) ==
  [server EXCEPT !.agentInitialized = TRUE,
                 !.initialized = server.initialized \cup {instance}]

\* POST /api/initialize, server.ts 117 with initializeAgent, 73-84
RequestInitialize(r) ==
  /\ threads[r].pc = "idle"
  /\ IF AlreadyInitialized
     THEN /\ threads' = [threads EXCEPT ![r].kind = "initialize",
                                        ![r].pc = "done"]
          /\ UNCHANGED server
     ELSE /\ server' = WithNewAgent
          /\ threads' = [threads EXCEPT ![r].kind = "initialize",
                                        ![r].pc = "initializing",
                                        ![r].instance = server.created + 1]
  /\ UNCHANGED notServerVars

\* POST /api/chat, server.ts 155-171, up to its first await or to the call
\* of agent.chat
RequestChat(r) ==
  /\ threads[r].pc = "idle"
  /\ IF ~server.agentInitialized \/ server.agent = Null
     THEN /\ server' = WithNewAgent
          /\ threads' = [threads EXCEPT ![r].kind = "chat",
                                        ![r].pc = "initializing",
                                        ![r].instance = server.created + 1]
     ELSE /\ threads' = [threads EXCEPT
               ![r].kind = "chat",
               ![r].pc = "done",
               ![r].chatOn = server.agent[1],
               ![r].chatOnInitialized = server.agent[1] \in server.initialized]
          /\ UNCHANGED server
  /\ UNCHANGED notServerVars

\* POST /api/wallets/switch, server.ts 348-349
RequestSwitch(r) ==
  /\ threads[r].pc = "idle"
  /\ server' = WithNewAgent
  /\ threads' = [threads EXCEPT ![r].kind = "switch",
                                ![r].pc = "initializing",
                                ![r].instance = server.created + 1]
  /\ UNCHANGED notServerVars

\* server.ts 84-85, 349-350: initialize() of the request's instance
\* returns; the route goes on: /api/chat calls chat on the agent variable
\* (server.ts 158-171)
InitializeCompletes(r) ==
  /\ threads[r].pc = "initializing"
  /\ server' = WithInitialized(threads[r].instance)
  /\ threads' =
       IF threads[r].kind = "chat"
       THEN [threads EXCEPT
               ![r].pc = "done",
               ![r].chatOn = server.agent[1],
               ![r].chatOnInitialized =
                  server.agent[1] \in server'.initialized]
       ELSE [threads EXCEPT ![r].pc = "done"]
  /\ UNCHANGED notServerVars

\* initialize() raises (wallet provider, network): the route answers 500
InitializeRaises(r) ==
  /\ threads[r].pc = "initializing"
  /\ threads' = [threads EXCEPT ![r].pc = "failed"]
  /\ UNCHANGED <<server, notServerVars>>

NextServer ==
  \/ \E r \in Requests : RequestInitialize(r)
  \/ \E r \in Requests : RequestChat(r)
  \/ \E r \in Requests : RequestSwitch(r)
  \/ \E r \in Requests : InitializeCompletes(r)
  \/ \E r \in Requests : InitializeRaises(r)

SpecServer == InitServer /\ [][NextServer]_vars

(***************************************************************************)
(* The adapters: the HTTP routes of server.ts with the page script         *)
(* public/app.js, and the chat loop of the command line (agent.ts main).   *)
(* Each keeps a view of whether a transaction awaits confirmation.         *)
(***************************************************************************)
\* server.ts 173-178 (/api/chat), 213-218 (/api/confirm), 238-241
\* (/api/cancel): the fields of the agent's response the route sends on
RouteResponse(o, resp) ==
  [message |-> resp.message,
   toolCalls |-> IF o \in {"chat", "confirm"} THEN resp.toolCalls ELSE Null,
   pendingTransaction |->
     IF o = "chat" THEN resp.pendingTransaction ELSE Null]

\* app.js 282-283, 390 and 407: hasPendingTx after the response to a request
\* made while it was `before`
hasPendingTx(before, o, data) ==
  CASE o = "chat" -> before \/ data.pendingTransaction # Null
    [] o \in {"confirm", "cancel"} -> FALSE
    [] OTHER -> before

\* agent.ts 1056-1088: the command line offers confirm or cancel exactly
\* when the response to a chat has pendingTransaction, and reads nothing of
\* the response to the confirm
cliAwaitsDecision(o, resp) == o = "chat" /\ resp.pendingTransaction # Null

(***************************************************************************)
(* Vocabulary of the properties.                                           *)
(***************************************************************************)
\* the tool invocations made since the current call started
CallExecs == SubSeq(execLog, preExecLen + 1, Len(execLog))

\* the record an executed invocation leaves in toolCalls
RecordOf(e) ==
  [name |-> e.name,
   result |-> IF ~e.ok THEN <<"Error", "tool_error">>
              ELSE IF e.sent THEN <<"out", e.name, e.args>>
              ELSE <<"Swap failed", e.name, e.args>>]

CallRecords == [i \in 1..Len(CallExecs) |-> RecordOf(CallExecs[i])]

\* the model calls the loop made during the current call
LoopCalls == SelectSeq(llmLog, LAMBDA x : x \in {"raise", "answer", "tools"})

IsPrefix(s, t) == Len(s) <= Len(t) /\ SubSeq(t, 1, Len(s)) = s

Returned(o) == pc = "idle" /\ op = o

(***************************************************************************)
(* C1: every execution of a fund-moving tool is made by confirmTransaction *)
(* on the pending record; the iteration loop never invokes a fund-moving   *)
(* tool itself.                                                            *)
(***************************************************************************)
C1_FundMovingOnlyByConfirm ==
  \A i \in 1..Len(execLog) :
    FundMovingTool(execLog[i].name) => execLog[i].by = "confirm"

(***************************************************************************)
(* C2: when no transaction is pending and the loop of a chat turn reaches  *)
(* a resolvable fund-moving invocation requested by the model, the turn    *)
(* ends there: the pending record is exactly that invocation, no tool is   *)
(* invoked, the response carries pendingTransaction, and toolCalls is      *)
(* absent when nothing was executed earlier in the turn.                   *)
(***************************************************************************)
C2_AtFundMovingRequest ==
  /\ op = "chat"
  /\ pc = "tools"
  /\ toolQueue # <<>>
  /\ Head(toolQueue).name \in tools
  /\ FundMovingTool(Head(toolQueue).name)
  /\ pendingTransaction = Null

C2_FreezeWhenNonePending ==
  [][C2_AtFundMovingRequest =>
       /\ pc' = "idle"
       /\ pendingTransaction' # Null
       /\ pendingTransaction'[1].toolName = Head(toolQueue).name
       /\ pendingTransaction'[1].toolArgs = Head(toolQueue).args
       /\ execLog' = execLog
       /\ response'.op = "chat"
       /\ response'.pendingTransaction = pendingTransaction'
       /\ response'.message.kind = "confirm_prompt"
       /\ (CallExecs = <<>> => response'.toolCalls = Null)]_vars

C2_Witness ==
  /\ Returned("chat")
  /\ prePending = Null
  /\ pendingTransaction # Null
  /\ response.pendingTransaction = pendingTransaction
  /\ CallExecs = <<>>
  /\ response.toolCalls = Null

(***************************************************************************)
(* C3: during a chat turn that starts with a pending transaction, the      *)
(* pending record is never replaced: whatever the model requests, also     *)
(* another fund-moving invocation, the record (operation name, arguments,  *)
(* description) is the one that was pending when the turn started.         *)
(***************************************************************************)
C3_PendingNotReplaced ==
  (op = "chat" /\ prePending # Null) => pendingTransaction = prePending

C3_Witness ==
  /\ Returned("chat")
  /\ prePending # Null
  /\ fundRequested
  /\ pendingTransaction = prePending
  /\ \E i \in 1..Len(CallExecs) :
       /\ FundMovingTool(CallExecs[i].name)
       /\ CallExecs[i].args # pendingTransaction[1].toolArgs

(***************************************************************************)
(* C4: confirmTransaction whose frozen tool executes successfully invokes  *)
(* that tool exactly once, clears the pending record, appends one          *)
(* synthetic assistant message with the result and then resumes the loop;  *)
(* whatever the model answers in the resumed loop (text, further           *)
(* invocations, a new fund-moving request), the returned message carries   *)
(* the formatted result and toolCalls starts with its record.              *)
(***************************************************************************)
C4_ConfirmSucceeded ==
  /\ op = "confirm"
  /\ Len(CallExecs) >= 1
  /\ CallExecs[1].by = "confirm"
  /\ CallExecs[1].ok

C4_ConfirmedMessage ==
  AIMessage("tx_confirmed", "", <<RecordOf(CallExecs[1])>>)

C4_ModelAnswered == \A i \in 1..Len(llmLog) : llmLog[i] # "raise"

C4_ConfirmSuccess ==
  C4_ConfirmSucceeded =>
    /\ CallExecs[1].name = prePending[1].toolName
    /\ CallExecs[1].args = prePending[1].toolArgs
    /\ \A i \in 2..Len(CallExecs) :
         CallExecs[i].by = "loop" /\ ~FundMovingTool(CallExecs[i].name)
    /\ IsPrefix(Append(preHistory, C4_ConfirmedMessage), conversationHistory)
    /\ \A i \in (Len(preHistory) + 2)..Len(conversationHistory) :
         conversationHistory[i].kind # "tx_confirmed"
    /\ (pc = "llm" /\ llmLog = <<>>) =>
         /\ pendingTransaction = Null
         /\ conversationHistory = Append(preHistory, C4_ConfirmedMessage)
    /\ (pc = "idle" /\ C4_ModelAnswered) =>
         /\ Len(LoopCalls) >= 1
         /\ (pendingTransaction = Null \/ pendingReq # CallExecs[1].id)
         /\ response.op = "confirm"
         /\ response.message.prefix = Some(RecordOf(CallExecs[1]).result)
         /\ response.toolCalls # Null
         /\ response.toolCalls[1][1] = RecordOf(CallExecs[1])

C4_Witness ==
  /\ Returned("confirm")
  /\ C4_ConfirmSucceeded
  /\ C4_ModelAnswered
  /\ Len(CallExecs) >= 2
  /\ Len(LoopCalls) >= 2
  /\ response.toolCalls[1][1] = RecordOf(CallExecs[1])
  /\ response.message.prefix = Some(RecordOf(CallExecs[1]).result)

(***************************************************************************)
(* C5: confirmTransaction whose frozen tool raises clears the pending      *)
(* record, returns the failure message, makes no model call and leaves the *)
(* conversation history as it was.                                         *)
(***************************************************************************)
C5_ConfirmToolRaised ==
  /\ op = "confirm"
  /\ Len(CallExecs) >= 1
  /\ CallExecs[1].by = "confirm"
  /\ ~CallExecs[1].ok

C5_ConfirmFailure ==
  C5_ConfirmToolRaised =>
    /\ pc = "idle"
    /\ Len(CallExecs) = 1
    /\ pendingTransaction = Null
    /\ response.op = "confirm"
    /\ response.message.kind = "tx_failed"
    /\ response.toolCalls = Null
    /\ response.pendingTransaction = Null
    /\ llmLog = <<>>
    /\ conversationHistory = preHistory

C5_Witness ==
  /\ C5_ConfirmToolRaised
  /\ prePending # Null
  /\ pendingTransaction = Null
  /\ response.message.kind = "tx_failed"

(***************************************************************************)
(* C6: confirmTransaction and cancelTransaction called while nothing is    *)
(* pending return the plain "nothing pending" message at once: no tool and *)
(* no model is invoked, the history and the empty pending slot are left    *)
(* as they were.                                                           *)
(***************************************************************************)
C6_NothingPending ==
  (op \in {"confirm", "cancel"} /\ prePending = Null) =>
    /\ pc = "idle"
    /\ response.op = op
    /\ response.message.kind = "nothing_pending"
    /\ response.toolCalls = Null
    /\ response.pendingTransaction = Null
    /\ CallExecs = <<>>
    /\ llmLog = <<>>
    /\ conversationHistory = preHistory
    /\ pendingTransaction = Null

C6_Witness ==
  /\ Returned("cancel")
  /\ prePending = Null
  /\ response.message.kind = "nothing_pending"
  /\ Len(conversationHistory) > 1
  /\ conversationHistory = preHistory

(***************************************************************************)
(* C7: cancelTransaction with a pending record clears it without invoking  *)
(* any tool and appends exactly one cancellation note, so that             *)
(* hasPendingTransaction() is false afterwards; and no invocation that was *)
(* cancelled is ever executed (an execution after the cancel comes from a  *)
(* new request of the model).                                              *)
(***************************************************************************)
C7_CancelClears ==
  /\ (Returned("cancel") /\ prePending # Null) =>
       /\ ~hasPendingTransaction
       /\ conversationHistory =
            Append(preHistory, AIMessage("cancel_note", "", <<>>))
       /\ CallExecs = <<>>
       /\ llmLog = <<>>
       /\ response.message.kind = "cancelled"
       /\ response.message.description = Some(prePending[1].description)
  /\ \A i \in 1..Len(execLog) : execLog[i].id \notin cancelledReqs

C7_Witness ==
  /\ Returned("cancel")
  /\ prePending # Null
  /\ ~hasPendingTransaction
  /\ pendingReq \in cancelledReqs
  /\ execLog # <<>>

(***************************************************************************)
(* C8: a chat turn in which the model requests only non-fund-moving        *)
(* invocations ends after at most 5 model invocations in the loop (none is *)
(* outstanding once 5 were made) and its response has no                   *)
(* pendingTransaction.                                                     *)
(***************************************************************************)
C8_BoundedTurn ==
  /\ Len(LoopCalls) <= 5
  /\ (pc = "llm" => Len(LoopCalls) < 5)
  /\ (Returned("chat") /\ ~fundRequested) =>
       /\ response.op = "chat"
       /\ response.pendingTransaction = Null

C8_Witness ==
  /\ Returned("chat")
  /\ ~fundRequested
  /\ Len(LoopCalls) = 5
  /\ Len(CallExecs) >= 4
  /\ response.pendingTransaction = Null

(***************************************************************************)
(* C9: if the model requests invocations in each of the 5 rounds and none  *)
(* of them is frozen as a pending transaction, the loop stops after the    *)
(* 5th round without a 6th model call and returns the fallback message     *)
(* built from all the tool records of the call (the fixed text when there  *)
(* is none).  C9_AsClaimed is the statement without the exception of the   *)
(* frozen invocation.                                                      *)
(***************************************************************************)
C9_FiveToolRounds ==
  /\ Len(llmLog) = 5
  /\ \A i \in 1..5 : llmLog[i] = "tools"
  /\ pc # "tools"

C9_FallbackReturned ==
  /\ pc = "idle"
  /\ response.op = op
  /\ response.pendingTransaction = Null
  /\ response.message.kind =
       (IF Len(CallExecs) = 0 THEN "problem_fixed" ELSE "friendly")
  /\ response.message.body = CallRecords
  /\ response.toolCalls =
       (IF Len(CallExecs) = 0 THEN <<>> ELSE <<CallRecords>>)

C9_AsClaimed == C9_FiveToolRounds => C9_FallbackReturned

C9_Frozen == pc = "idle" /\ response.pendingTransaction # Null

C9_FallbackAtBound == (C9_FiveToolRounds /\ ~C9_Frozen) => C9_FallbackReturned

C9_Witness ==
  /\ C9_FiveToolRounds
  /\ ~C9_Frozen
  /\ Len(CallExecs) >= 2
  /\ response.message.kind = "friendly"
  /\ response.message.body = CallRecords

(***************************************************************************)
(* C10: when a model invocation of the loop fails during a chat turn, chat *)
(* returns instead of throwing: it makes exactly one more model call, to   *)
(* explain the failure; when that call fails too the fixed apologetic      *)
(* template is returned; the returned text is the assistant message        *)
(* appended last to the history.                                           *)
(***************************************************************************)
C10_LoopCallFailed == op = "chat" /\ \E i \in 1..Len(llmLog) : llmLog[i] = "raise"

C10_ExplainCalls ==
  SelectSeq(llmLog, LAMBDA x : x \in {"explain", "explain_raise"})

C10_ErrorExplained ==
  C10_LoopCallFailed =>
    /\ pc \in {"explain", "idle"}
    /\ Len(SelectSeq(llmLog, LAMBDA x : x = "raise")) = 1
    /\ pc = "explain" => llmLog[Len(llmLog)] = "raise"
    /\ pc = "idle" =>
         /\ Len(C10_ExplainCalls) = 1
         /\ llmLog[Len(llmLog) - 1] = "raise"
         /\ llmLog[Len(llmLog)] \in {"explain", "explain_raise"}
         /\ response.op = "chat"
         /\ response.message.kind \in
              {"error_explained", "error_encountered", "error_sorry"}
         /\ (llmLog[Len(llmLog)] = "explain_raise") =>
              response.message.kind = "error_sorry"
         /\ (llmLog[Len(llmLog)] = "explain") =>
              response.message.kind # "error_sorry"
         /\ conversationHistory[Len(conversationHistory)] =
              AIMessage(response.message.kind, response.message.text, <<>>)
         /\ response.toolCalls = Null
         /\ response.pendingTransaction = Null

C10_Witness ==
  /\ Returned("chat")
  /\ C10_LoopCallFailed
  /\ llmLog[Len(llmLog)] = "explain_raise"
  /\ response.message.kind = "error_sorry"
  /\ Len(CallExecs) >= 1

(***************************************************************************)
(* C11: when a resolved tool that is not frozen raises during a round, its *)
(* error text is recorded as the result of that invocation in the round    *)
(* results and in the cumulative tool calls, and the remaining invocations *)
(* of the round are still processed.  The loop then calls the model again, *)
(* except that the call returns when a later invocation of the round is    *)
(* frozen (the confirmation prompt) or when the round is the fifth (the    *)
(* fallback); the error record is in the toolCalls of both responses.      *)
(* C11_AsClaimed is the statement without the two exceptions.              *)
(***************************************************************************)
C11_ToolRaises ==
  /\ Len(execLog') = Len(execLog) + 1
  /\ execLog'[Len(execLog')].by = "loop"
  /\ ~execLog'[Len(execLog')].ok

C11_ErrorRecord(name) == [name |-> name, result |-> <<"Error", "tool_error">>]

C11_Recorded ==
  /\ toolResults' = Append(toolResults, C11_ErrorRecord(Head(toolQueue).name))
  /\ allToolCalls' = Append(allToolCalls, C11_ErrorRecord(Head(toolQueue).name))

C11_RestProcessed ==
  /\ toolQueue' = Tail(toolQueue)
  /\ Len(toolQueue) > 1 => (pc' = "tools" /\ iteration' = iteration)

C11_NextModelCall ==
  /\ pc' = "llm"
  /\ iteration' = iteration + 1
  /\ conversationHistory' =
       Append(conversationHistory,
              [role |-> "ai", kind |-> "tool_results", text |-> "",
               body |-> toolResults'])

C11_RoundHadError ==
  \E i \in 1..Len(toolResults) : toolResults[i].result = <<"Error", "tool_error">>

\* the call returned straight from a round of tool calls
C11_ReturnedFromRound ==
  /\ pc = "idle"
  /\ op \in {"chat", "confirm"}
  /\ llmLog # <<>>
  /\ llmLog[Len(llmLog)] = "tools"

C11_ErrorsInToolCalls ==
  /\ response.toolCalls # <<>>
  /\ \A i \in 1..Len(toolResults) :
       toolResults[i].result = <<"Error", "tool_error">>
         => \E j \in 1..Len(response.toolCalls[1]) :
              response.toolCalls[1][j] = toolResults[i]

C11_AsClaimed ==
  /\ [][C11_ToolRaises =>
          /\ C11_Recorded
          /\ C11_RestProcessed
          /\ Len(toolQueue) = 1 => C11_NextModelCall]_vars
  /\ [](C11_ReturnedFromRound => ~C11_RoundHadError)

C11_ToolErrorNotFatal ==
  /\ [][C11_ToolRaises =>
          /\ C11_Recorded
          /\ C11_RestProcessed
          /\ (Len(toolQueue) = 1 /\ iteration < 5) => C11_NextModelCall
          /\ (Len(toolQueue) = 1 /\ iteration = 5) =>
                (pc' = "idle" /\ response'.pendingTransaction = <<>>
                   /\ response'.toolCalls = <<allToolCalls'>>)]_vars
  /\ []((C11_ReturnedFromRound /\ C11_RoundHadError) =>
          /\ response.pendingTransaction # <<>> \/ Len(LoopCalls) = 5
          /\ C11_ErrorsInToolCalls)

C11_Witness ==
  /\ pc = "llm"
  /\ llmLog # <<>>
  /\ llmLog[Len(llmLog)] = "tools"
  /\ Len(toolResults) = 2
  /\ toolResults[1].result = <<"Error", "tool_error">>
  /\ toolResults[2].result[1] = "out"
  /\ conversationHistory[Len(conversationHistory)].body = toolResults
  /\ SubSeq(allToolCalls, Len(allToolCalls) - 1, Len(allToolCalls)) = toolResults

(***************************************************************************)
(* C12: an invocation whose name the registry does not hold is skipped:    *)
(* no tool is invoked, no record is added to the round results or to the   *)
(* tool calls, no pending transaction is created (also when the name is    *)
(* one of the fund-moving set), and the loop goes on with the next         *)
(* invocation of the round, or ends the round when there is none.          *)
(***************************************************************************)
C12_AtUnregistered ==
  /\ pc = "tools"
  /\ toolQueue # <<>>
  /\ Head(toolQueue).name \notin tools

C12_Skipped ==
  /\ execLog' = execLog
  /\ toolResults' = toolResults
  /\ allToolCalls' = allToolCalls
  /\ pendingTransaction' = pendingTransaction
  /\ pendingReq' = pendingReq
  /\ toolQueue' = Tail(toolQueue)
  /\ IF Len(toolQueue) > 1
     THEN pc' = "tools" /\ conversationHistory' = conversationHistory
     ELSE /\ pc' \in {"llm", "idle"}
          /\ pc' = "llm" <=> iteration < 5
          /\ conversationHistory' =
               Append(conversationHistory,
                      [role |-> "ai", kind |-> "tool_results", text |-> "",
                       body |-> toolResults])

C12_UnregisteredSkipped == [][C12_AtUnregistered => C12_Skipped]_vars

\* a round of an unregistered fund-moving name followed by get_balance
C12_Witness ==
  /\ pc = "llm"
  /\ op = "chat"
  /\ llmLog = <<"tools">>
  /\ fundRequested
  /\ prePending = <<>>
  /\ pendingTransaction = <<>>
  /\ Len(CallExecs) = 1
  /\ CallExecs[1].name = "get_balance"
  /\ CallExecs[1].id = 2
  /\ allToolCalls = CallRecords
  /\ toolResults = CallRecords

(***************************************************************************)
(* C13: with trigger 40 and keep 12, a chat turn that starts on a history  *)
(* of more than 40 messages summarizes it: when the summary call succeeds  *)
(* the conversation is the system instruction, one summary message and the *)
(* 12 most recent messages (the new user message included) when the loop   *)
(* makes its first model call; what the turn appends after that (at most 5 *)
(* messages) comes on top.  The system instruction is the first message in *)
(* every reachable state.  C13_AsClaimed is the statement with the length  *)
(* 2 + 12 taken after the turn.                                            *)
(***************************************************************************)
C13_SystemInstruction ==
  [role |-> "system", kind |-> "SYSTEM_PROMPT", text |-> "", body |-> <<>>]

C13_SystemFirst ==
  /\ Len(conversationHistory) >= 1
  /\ conversationHistory[1] = C13_SystemInstruction

C13_Pushed ==
  Append(preHistory,
         [role |-> "human", kind |-> "user", text |-> "", body |-> <<>>])

C13_Summarized ==
  <<C13_SystemInstruction,
    [role |-> "system", kind |-> "summary", text |-> "", body |-> <<>>]>>
    \o SubSeq(C13_Pushed, Len(C13_Pushed) - 11, Len(C13_Pushed))

C13_TurnOnLongHistory ==
  /\ op = "chat"
  /\ summaryTriggerMessages = 40
  /\ summaryKeepMessages = 12
  /\ Len(preHistory) > 40

C13_AsClaimed ==
  /\ C13_SystemFirst
  /\ (C13_TurnOnLongHistory /\ pc = "idle") =>
        conversationHistory = C13_Summarized

C13_SummarizedAtTurnStart ==
  /\ C13_SystemFirst
  /\ C13_TurnOnLongHistory =>
        /\ summaryOutcome \in {"ok", "failed"}
        /\ summaryOutcome = "ok" =>
              /\ IsPrefix(C13_Summarized, conversationHistory)
              /\ Len(conversationHistory) <= 2 + 12 + 5
              /\ (pc = "llm" /\ llmLog = <<>>) =>
                    conversationHistory = C13_Summarized

C13_Witness ==
  /\ C13_TurnOnLongHistory
  /\ Len(preHistory) = 45
  /\ summaryOutcome = "ok"
  /\ pc = "idle"
  /\ Len(conversationHistory) = 2 + 12 + 1
  /\ conversationHistory[2].kind = "summary"
  /\ conversationHistory[3] = preHistory[35]
  /\ conversationHistory[14].kind = "user"

(***************************************************************************)
(* C14: when the summary call fails, the history becomes the system        *)
(* instruction followed by the keepCount most recent messages, the failure *)
(* is not reported to the caller, and the turn goes on with the loop.      *)
(***************************************************************************)
C14_KeepCount == IF summaryKeepMessages > 6 THEN summaryKeepMessages ELSE 6

C14_Trimmed ==
  <<C13_SystemInstruction>>
    \o SubSeq(C13_Pushed, Len(C13_Pushed) - C14_KeepCount + 1, Len(C13_Pushed))

C14_SummaryFailed == op = "chat" /\ summaryOutcome = "failed"

C14_SummaryFailureTrims ==
  C14_SummaryFailed =>
    /\ IsPrefix(C14_Trimmed, conversationHistory)
    /\ llmLog = <<>> =>
          (pc = "llm" /\ iteration = 1 /\ conversationHistory = C14_Trimmed)
    /\ (pc = "idle" /\ \A i \in 1..Len(llmLog) : llmLog[i] # "raise") =>
          /\ response.op = "chat"
          /\ response.message.kind \in
               {"content", "friendly", "confirm_prompt", "problem_fixed"}

C14_Witness ==
  /\ C14_SummaryFailed
  /\ Len(preHistory) > 40
  /\ pc = "idle"
  /\ llmLog = <<"answer">>
  /\ response.message.kind = "content"
  /\ Len(conversationHistory) = 1 + 12 + 1
  /\ conversationHistory[2] = preHistory[Len(preHistory) - 10]

(***************************************************************************)
(* C15: clearHistory leaves the history with the system instruction alone  *)
(* and does not touch the pending slot: a transaction pending before the   *)
(* call is pending after it, and a confirmTransaction that follows invokes *)
(* the tool of that record with its arguments.                             *)
(***************************************************************************)
C15_Cleared ==
  Returned("clear") =>
    /\ conversationHistory = <<C13_SystemInstruction>>
    /\ pendingTransaction = prePending

C15_ConfirmAfterClear ==
  /\ op = "confirm"
  /\ preHistory = <<C13_SystemInstruction>>
  /\ prePending # <<>>

C15_ClearKeepsPending ==
  /\ C15_Cleared
  /\ (C15_ConfirmAfterClear /\ pc # "confirm_invoke") =>
        /\ Len(CallExecs) >= 1
        /\ CallExecs[1].by = "confirm"
        /\ CallExecs[1].name = prePending[1].toolName
        /\ CallExecs[1].args = prePending[1].toolArgs

C15_Witness ==
  /\ C15_ConfirmAfterClear
  /\ pc = "idle"
  /\ CallExecs[1].ok
  /\ CallExecs[1].name = "native_transfer"
  /\ pendingTransaction = <<>>

(***************************************************************************)
(* C16: over every sequence of chat, confirmTransaction, cancelTransaction *)
(* and clearHistory calls the history length stays below a fixed bound     *)
(* determined by the trigger, the keep count and the iteration bound.  The *)
(* bound stated here is the one summarization gives to the calls that run  *)
(* it or add one message: a chat turn that starts at the trigger or below  *)
(* adds at most 5 messages, and a cancellation adds one.                   *)
(***************************************************************************)
C16_Trigger == IF summaryTriggerMessages > 10 THEN summaryTriggerMessages ELSE 10

C16_Bound == C16_Trigger + 5 + 1

C16_HistoryBounded == Len(conversationHistory) <= C16_Bound

(***************************************************************************)
(* C17: the invocation confirmTransaction executes has the tool name and   *)
(* the arguments the model requested when the pending record was created;  *)
(* the record keeps them through the chat turns, clearHistory calls and    *)
(* summarizations that happen before the confirmation.                     *)
(***************************************************************************)
C17_PendingIsFrozenCall ==
  pendingTransaction # <<>> =>
    /\ frozenCall # <<>>
    /\ pendingTransaction[1].toolName = frozenCall[1].name
    /\ pendingTransaction[1].toolArgs = frozenCall[1].args

C17_ConfirmInvokes ==
  /\ Len(execLog') = Len(execLog) + 1
  /\ execLog'[Len(execLog')].by = "confirm"

C17_ConfirmExecutesRequested ==
  /\ []C17_PendingIsFrozenCall
  /\ [][C17_ConfirmInvokes =>
          /\ frozenCall # <<>>
          /\ execLog'[Len(execLog')].name = frozenCall[1].name
          /\ execLog'[Len(execLog')].args = frozenCall[1].args]_vars

\* a confirmation after a chat turn that summarized the history
C17_Witness ==
  /\ Returned("confirm")
  /\ Len(preHistory) >= 2
  /\ preHistory[2].kind = "summary"
  /\ Len(CallExecs) >= 1
  /\ CallExecs[1].by = "confirm"
  /\ CallExecs[1].ok
  /\ CallExecs[1].name = "native_transfer"
  /\ CallExecs[1].args = "a2"

(***************************************************************************)
(* C19: the insufficient-balance warning is advisory: confirmTransaction   *)
(* invokes the tool of the pending record with its arguments whether or    *)
(* not the description of the record carries the warning.                  *)
(***************************************************************************)
C19_ConfirmCalled ==
  /\ pc = "idle"
  /\ pendingTransaction # <<>>
  /\ op' = "confirm"
  /\ nOps' = nOps + 1

C19_Invoked ==
  /\ Len(execLog') = Len(execLog) + 1
  /\ execLog'[Len(execLog')].by = "confirm"
  /\ execLog'[Len(execLog')].name = pendingTransaction[1].toolName
  /\ execLog'[Len(execLog')].args = pendingTransaction[1].toolArgs

C19_WarningIsAdvisory ==
  /\ [][C19_ConfirmCalled =>
          (pc' = "confirm_invoke" /\ pendingTransaction' = pendingTransaction)]_vars
  /\ [][pc = "confirm_invoke" => C19_Invoked]_vars

C19_Witness ==
  /\ op = "confirm"
  /\ prePending # <<>>
  /\ prePending[1].description.warning
  /\ Len(CallExecs) >= 1
  /\ CallExecs[1].by = "confirm"
  /\ CallExecs[1].ok
  /\ CallExecs[1].args = prePending[1].toolArgs

(***************************************************************************)
(* C20: the toolCalls a chat call returns list every invocation executed   *)
(* during the call, in the order of execution, on every return path: the   *)
(* final answer, the pending-transaction return, the iteration bound and   *)
(* the failure of a model call.                                            *)
(***************************************************************************)
C20_ToolCallsComplete ==
  Returned("chat") =>
    /\ response.op = "chat"
    /\ response.toolCalls =
         (IF Len(CallExecs) = 0 THEN <<>> ELSE <<CallRecords>>)

(***************************************************************************)
(* C18: two agent instances of one process share no mutable state: no      *)
(* operation on one instance changes what can be observed through the      *)
(* other instance (its wallet address, history and pending slot) or        *)
(* through a module-level variable.                                        *)
(***************************************************************************)
C18_ThisInstance == <<walletAddress, conversationHistory, pendingTransaction>>

C18_NoSharedMutableState ==
  [][/\ serverWalletAddress' = serverWalletAddress
     /\ peer' # peer => C18_ThisInstance' = C18_ThisInstance
     /\ C18_ThisInstance' # C18_ThisInstance => peer' = peer]_vars

(***************************************************************************)
(* C21: when a fund-moving invocation is frozen in a round the loop        *)
(* returns at once: the step that fills the slot ends the call without     *)
(* executing or recording anything, the invocations listed after the       *)
(* frozen one in that round are never executed, recorded or frozen, and a  *)
(* later confirmTransaction executes the frozen invocation only.           *)
(***************************************************************************)
C21_Freezes == pendingTransaction = <<>> /\ pendingTransaction' # <<>>

C21_ReturnsAtOnce ==
  /\ pc' = "idle"
  /\ execLog' = execLog
  /\ allToolCalls' = allToolCalls
  /\ toolResults' = toolResults
  /\ conversationHistory' = conversationHistory
  /\ pendingReq' = Head(toolQueue).id
  /\ response'.pendingTransaction = pendingTransaction'

C21_DroppedIds == {d.id : d \in droppedReqs}

C21_DroppedNeverRun ==
  /\ \A i \in 1..Len(execLog) : execLog[i].id \notin C21_DroppedIds
  /\ pendingTransaction # <<>> => pendingReq \notin C21_DroppedIds
  /\ pc = "tools" =>
        \A i \in 1..Len(toolQueue) : toolQueue[i].id \notin C21_DroppedIds

C21_ConfirmInvokes ==
  /\ Len(execLog') > Len(execLog)
  /\ execLog'[Len(execLog')].by = "confirm"

C21_FreezeEndsRound ==
  /\ [][C21_Freezes => C21_ReturnsAtOnce]_vars
  /\ []C21_DroppedNeverRun
  /\ [][C21_ConfirmInvokes =>
          /\ Len(execLog') = Len(execLog) + 1
          /\ execLog'[Len(execLog')].id = pendingReq]_vars

\* a round of a transfer and a second invocation, then the confirmation
C21_Witness ==
  /\ Returned("confirm")
  /\ Len(CallExecs) >= 1
  /\ CallExecs[1].by = "confirm"
  /\ CallExecs[1].ok
  /\ \E d \in droppedReqs : d.id = CallExecs[1].id + 1

(***************************************************************************)
(* C22: when the model requests two fund-moving invocations in one round   *)
(* while none is pending, the first is frozen and the call returns; the    *)
(* second is not looked at: it is neither executed nor recorded nor        *)
(* frozen.  C22_AsClaimed is the statement that the second one executes    *)
(* in that call as a normal invocation.                                    *)
(***************************************************************************)
C22_Registered(name) == name \in tools

\* the call returned from a round that listed two fund-moving invocations
\* one after the other, the first of which found the slot empty
C22_TwoInOneRound ==
  /\ pc = "idle"
  /\ op \in {"chat", "confirm"}
  /\ response.pendingTransaction # <<>>
  /\ Len(toolQueue) >= 2
  /\ toolQueue[1].id = pendingReq
  /\ C22_Registered(toolQueue[2].name)
  /\ FundMovingTool(toolQueue[2].name)

C22_SecondExecuted ==
  \E i \in 1..Len(CallExecs) :
    CallExecs[i].id = toolQueue[2].id /\ CallExecs[i].by = "loop"

C22_AsClaimed == C22_TwoInOneRound => C22_SecondExecuted

C22_SecondDropped ==
  /\ C22_TwoInOneRound =>
        /\ ~C22_SecondExecuted
        /\ pendingTransaction # <<>>
        /\ pendingTransaction[1].toolName = toolQueue[1].name
        /\ pendingTransaction[1].toolArgs = toolQueue[1].args
        /\ response.pendingTransaction = pendingTransaction
        /\ response.toolCalls = (IF Len(CallExecs) = 0 THEN <<>> ELSE <<CallRecords>>)
        /\ toolQueue[2] \in droppedReqs
  /\ \A d \in droppedReqs :
        /\ \A i \in 1..Len(execLog) : execLog[i].id # d.id
        /\ pendingTransaction # <<>> => pendingReq # d.id

C22_Witness ==
  /\ C22_TwoInOneRound
  /\ op = "chat"
  /\ prePending = <<>>
  /\ toolQueue[1].args = "a1"
  /\ toolQueue[2].args = "a2"
  /\ Len(CallExecs) = 0

(***************************************************************************)
(* C23: a round in which the model requested invocations and none was      *)
(* frozen appends exactly one assistant message, which carries all the     *)
(* results of the round, and the message is in the history before the next *)
(* model call.  Nothing is appended while the round is under way.          *)
(***************************************************************************)
C23_ResultsMessage(results) ==
  [role |-> "ai", kind |-> "tool_results", text |-> "", body |-> results]

C23_RoundStarts == pc = "llm" /\ pc' = "tools"

C23_RoundGoesOn == pc = "tools" /\ pc' = "tools"

C23_LoopExecutes ==
  /\ Len(execLog') = Len(execLog) + 1
  /\ execLog'[Len(execLog')].by = "loop"

C23_RoundEndsUnfrozen ==
  /\ pc = "tools"
  /\ pc' # "tools"
  /\ pendingTransaction' = pendingTransaction

C23_OneMessagePerRound ==
  /\ [][C23_RoundStarts =>
          (toolResults' = <<>> /\ conversationHistory' = conversationHistory)]_vars
  /\ [][pc = "tools" =>
          IF C23_LoopExecutes
          THEN toolResults' =
                 Append(toolResults, RecordOf(execLog'[Len(execLog')]))
          ELSE toolResults' = toolResults]_vars
  /\ [][C23_RoundGoesOn => conversationHistory' = conversationHistory]_vars
  /\ [][C23_RoundEndsUnfrozen =>
          conversationHistory' =
            Append(conversationHistory, C23_ResultsMessage(toolResults'))]_vars
  /\ []((pc = "llm" /\ llmLog # <<>> /\ llmLog[Len(llmLog)] = "tools") =>
          conversationHistory[Len(conversationHistory)] =
            C23_ResultsMessage(toolResults))

C23_Witness ==
  /\ op = "chat"
  /\ pc = "llm"
  /\ llmLog = <<"tools">>
  /\ Len(toolResults) = 2
  /\ toolResults[1].result[1] = "out"
  /\ toolResults[2].result[1] = "out"
  /\ conversationHistory[Len(conversationHistory)] =
       C23_ResultsMessage(toolResults)
  /\ conversationHistory[Len(conversationHistory) - 1].kind = "user"

(***************************************************************************)
(* C24: within a round the invocations are executed one at a time in the   *)
(* order the model listed them (the request numbers follow the listing):   *)
(* the loop executes the first invocation it has not yet dealt with, a     *)
(* step executes at most one invocation, and the round results and the     *)
(* tool calls of the call are in the order of execution.                   *)
(***************************************************************************)
C24_InListingOrder(queue) ==
  \A i \in 1..Len(queue) - 1 : queue[i + 1].id = queue[i].id + 1

C24_LoopExecs == SelectSeq(CallExecs, LAMBDA e : e.by = "loop")

C24_ExecutedInOrder ==
  /\ [][C23_RoundStarts => C24_InListingOrder(toolQueue')]_vars
  /\ [][Len(execLog') <= Len(execLog) + 1]_vars
  /\ [][C23_LoopExecutes =>
          /\ pc = "tools"
          /\ execLog'[Len(execLog')].id = Head(toolQueue).id
          /\ execLog'[Len(execLog')].name = Head(toolQueue).name
          /\ execLog'[Len(execLog')].args = Head(toolQueue).args
          /\ toolQueue' = Tail(toolQueue)]_vars
  /\ [](pc = "tools" => C24_InListingOrder(toolQueue))
  /\ [](\A i \in 1..Len(C24_LoopExecs) - 1 :
          C24_LoopExecs[i].id < C24_LoopExecs[i + 1].id)
  /\ [](pc \in {"tools", "llm"} =>
          /\ allToolCalls = CallRecords
          /\ Len(toolResults) <= Len(allToolCalls)
          /\ toolResults =
               SubSeq(allToolCalls, Len(allToolCalls) - Len(toolResults) + 1,
                      Len(allToolCalls)))

C24_Witness ==
  /\ pc = "llm"
  /\ Len(C24_LoopExecs) = 2
  /\ C24_LoopExecs[1].ok
  /\ ~C24_LoopExecs[2].ok
  /\ C24_LoopExecs[2].id = C24_LoopExecs[1].id + 1
  /\ Len(toolResults) = 2
  /\ toolResults[1].result[1] = "out"
  /\ toolResults[2].result[1] = "Error"

(***************************************************************************)
(* C25: in a chat turn the history is replaced by summarization exactly    *)
(* when, with the user message appended, it is longer than                 *)
(* max(10, trigger) and the messages after the first and before the last   *)
(* max(6, keep) are at least 4; otherwise the history is the one with the  *)
(* user message appended and the summary model is not called.              *)
(***************************************************************************)
C25_FirstModelCall == op = "chat" /\ pc = "llm" /\ llmLog = <<>>

C25_Pushed == Append(preHistory, HumanMessage)

C25_Condition ==
  /\ Len(C25_Pushed) > Max(10, summaryTriggerMessages)
  /\ Len(C25_Pushed) - 1 - Max(6, summaryKeepMessages) >= 4

C25_Tail ==
  [i \in 1..Max(6, summaryKeepMessages) |->
     C25_Pushed[Len(C25_Pushed) - Max(6, summaryKeepMessages) + i]]

C25_Replaced ==
  /\ conversationHistory # C25_Pushed
  /\ conversationHistory \in
       {<<SystemPromptMessage, SummaryMessage>> \o C25_Tail,
        <<SystemPromptMessage>> \o C25_Tail}

C25_SummarizesIffOverTrigger ==
  C25_FirstModelCall =>
    IF C25_Condition
    THEN summaryOutcome \in {"ok", "failed"} /\ C25_Replaced
    ELSE summaryOutcome = "none" /\ conversationHistory = C25_Pushed

\* the trigger is exceeded and the middle part is too short
C25_Witness ==
  /\ C25_FirstModelCall
  /\ Len(C25_Pushed) > Max(10, summaryTriggerMessages)
  /\ ~C25_Condition
  /\ conversationHistory = C25_Pushed

C25_WitnessReplaced ==
  /\ C25_FirstModelCall
  /\ summaryTriggerMessages < 10
  /\ C25_Condition
  /\ summaryOutcome = "ok"

(***************************************************************************)
(* C26: apart from clearHistory and the summarization step at the start of *)
(* a chat turn, the history only grows at its end: every step leaves the   *)
(* messages it finds in place, and the history a chat, confirmTransaction  *)
(* or cancelTransaction call started with is a prefix of the history when  *)
(* the call returns.                                                       *)
(***************************************************************************)
C26_ClearStep == pc = "idle" /\ op' = "clear" /\ nOps' = nOps + 1

C26_SummarizationStep ==
  /\ pc = "idle"
  /\ pc' = "llm"
  /\ op' = "chat"
  /\ summaryOutcome' \in {"ok", "failed"}

C26_StepAppends ==
  /\ IsPrefix(conversationHistory, conversationHistory')
  /\ Len(conversationHistory') <= Len(conversationHistory) + 1

C26_CallAppends ==
  (/\ op \in {"chat", "confirm", "cancel"}
   /\ ~(op = "chat" /\ summaryOutcome \in {"ok", "failed"}))
  => IsPrefix(preHistory, conversationHistory)

C26_AppendOnly ==
  /\ [][C26_ClearStep \/ C26_SummarizationStep \/ C26_StepAppends]_vars
  /\ []C26_CallAppends

\* a cancellation in a session that has had a turn
C26_Witness ==
  /\ op = "cancel"
  /\ pc = "idle"
  /\ Len(preHistory) > 2
  /\ conversationHistory =
       Append(preHistory, AIMessage("cancel_note", "", <<>>))

(***************************************************************************)
(* C27: when the final answer of the model is empty, or repeats a raw tool *)
(* result in fewer than 200 characters, and an invocation was executed in  *)
(* the call, the message appended to the history and returned is the one   *)
(* built from the tool records, not the text of the model.                 *)
(***************************************************************************)
C27_AnswerReturned ==
  /\ pc = "idle"
  /\ op \in {"chat", "confirm"}
  /\ llmLog # <<>>
  /\ llmLog[Len(llmLog)] = "answer"
  /\ Len(allToolCalls) > 0

C27_LastMessage == conversationHistory[Len(conversationHistory)]

C27_Fallback == generateFriendlyMessageFromToolResults(allToolCalls)

C27_DegenerateTexts ==
  {c.id : c \in {d \in Contents : d.length = 0 \/ (d.echoes /\ d.length < 200)}}

C27_ModelTextKept ==
  /\ C27_LastMessage.kind = "content"
  /\ C27_LastMessage.text \in C27_DegenerateTexts

C27_DegenerateReplaced ==
  C27_AnswerReturned => ~C27_ModelTextKept

\* the part the code keeps: a short repetition of a raw result is replaced
C27_ShortEchoReplaced ==
  C27_AnswerReturned =>
    ~(C27_LastMessage.kind = "content" /\ C27_LastMessage.text = "echo_short")

C27_WitnessFallback ==
  /\ C27_AnswerReturned
  /\ C27_LastMessage = AIMessage(C27_Fallback.kind, C27_Fallback.text,
                                 C27_Fallback.body)

(***************************************************************************)
(* C28: the balance line and the insufficient-balance warning are part of  *)
(* a description only when the operation consumes the native currency      *)
(* (native transfer, wrap, swap from ETH); the descriptions of an erc20    *)
(* transfer, an unwrap and a swap from another token have neither, and an  *)
(* unwrap is described by the unwrap block.                                *)
(***************************************************************************)
C28_ConsumesNative(name, args) ==
  \/ name = "native_transfer"
  \/ name = "wrap_eth"
  \/ (name = "uniswap_swap" /\ TokenIn(args) \in {"ETH", "eth"})

C28_Described == pendingTransaction # Null

C28_Description == pendingTransaction[1].description

C28_BalanceOnlyForNative ==
  C28_Described =>
    /\ (C28_Description.balanceLine \/ C28_Description.warning) =>
         C28_ConsumesNative(pendingTransaction[1].toolName,
                            pendingTransaction[1].toolArgs)
    /\ pendingTransaction[1].toolName = "unwrap_eth" =>
         C28_Description.block = "unwrap_eth"

\* the part the code keeps: every operation but unwrap
C28_BalanceOnlyForNativeButUnwrap ==
  (C28_Described /\ pendingTransaction[1].toolName # "unwrap_eth") =>
    /\ (C28_Description.balanceLine \/ C28_Description.warning) =>
         C28_ConsumesNative(pendingTransaction[1].toolName,
                            pendingTransaction[1].toolArgs)
    /\ C28_Description.block = pendingTransaction[1].toolName

C28_WitnessSwapFromToken ==
  /\ C28_Described
  /\ pendingTransaction[1].toolName = "uniswap_swap"
  /\ pendingTransaction[1].toolArgs = "a4"
  /\ ~C28_Description.balanceLine

C28_WitnessSwapFromEth ==
  /\ C28_Described
  /\ pendingTransaction[1].toolName = "uniswap_swap"
  /\ pendingTransaction[1].toolArgs = "a3"
  /\ C28_Description.warning

(***************************************************************************)
(* C29: the results of the invocations the loop executed in a round are in *)
(* the conversation history when the loop next calls the model or returns  *)
(* to the caller, also when the round ended by freezing a fund-moving      *)
(* invocation.                                                             *)
(***************************************************************************)
C29_AfterRound ==
  /\ pc \in {"llm", "idle"}
  /\ op \in {"chat", "confirm"}
  /\ llmLog # <<>>
  /\ llmLog[Len(llmLog)] = "tools"
  /\ toolResults # <<>>

\* nothing is appended between the results of a round and the next model
\* call or the return
C29_RoundInHistory ==
  conversationHistory[Len(conversationHistory)] =
    C23_ResultsMessage(toolResults)

C29_ExecutedResultsInHistory == C29_AfterRound => C29_RoundInHistory

\* the part the code keeps: the rounds that do not end by a freeze
C29_UnfrozenRoundsInHistory ==
  (C29_AfterRound /\ ~(pc = "idle" /\ response.pendingTransaction # Null))
    => C29_RoundInHistory

C29_WitnessUnfrozen ==
  /\ C29_AfterRound
  /\ pc = "idle"
  /\ response.pendingTransaction = Null
  /\ C29_RoundInHistory

(***************************************************************************)
(* C30: when the main model is first called in a chat turn the message the *)
(* user submitted is the last entry of the history, whether summarization  *)
(* was skipped, replaced the middle part by a summary or fell back to      *)
(* truncation; the message is in the part that is kept.                    *)
(***************************************************************************)
C30_UserMessageLast ==
  C25_FirstModelCall =>
    /\ conversationHistory[Len(conversationHistory)] = HumanMessage
    /\ summaryOutcome \in {"ok", "failed"} =>
         /\ Len(conversationHistory) =
              Max(6, summaryKeepMessages)
                + (IF summaryOutcome = "ok" THEN 2 ELSE 1)
         /\ \A i \in 1..Max(6, summaryKeepMessages) - 1 :
              conversationHistory[Len(conversationHistory) - i] =
                preHistory[Len(preHistory) + 1 - i]

\* the summary call failed and the history was truncated
C30_Witness ==
  /\ C25_FirstModelCall
  /\ summaryOutcome = "failed"
  /\ conversationHistory[Len(conversationHistory)] = HumanMessage

(***************************************************************************)
(* C31: when chat or confirmTransaction returns a final message that is    *)
(* not the prompt to confirm a transaction (the answer of the model, the   *)
(* message built from the tool records, the message at the iteration       *)
(* bound, the explanation of an error), that text is the last message of   *)
(* the history, as an assistant message.                                   *)
(***************************************************************************)
C31_FinalKinds ==
  {"content", "friendly", "done_fixed", "problem_fixed", "error_explained",
   "error_encountered", "error_sorry"}

C31_FinalReturned ==
  /\ pc = "idle"
  /\ op \in {"chat", "confirm"}
  /\ response.op = op
  /\ response.message.kind \in C31_FinalKinds

C31_TextIsLastMessage ==
  conversationHistory[Len(conversationHistory)] =
    AIMessage(response.message.kind, response.message.text,
              response.message.body)

C31_FinalTextAppended == C31_FinalReturned => C31_TextIsLastMessage

\* the part the code keeps: every return but the one at the iteration bound
C31_FinalTextAppendedBelowBound ==
  (C31_FinalReturned /\ llmLog[Len(llmLog)] # "tools")
    => C31_TextIsLastMessage

C31_WitnessAnswer ==
  /\ C31_FinalReturned
  /\ op = "confirm"
  /\ response.message.kind = "content"
  /\ C31_TextIsLastMessage

(***************************************************************************)
(* C32: confirmTransaction answers with the transaction-failed message     *)
(* only when the invocation of the frozen tool raised; when the tool was   *)
(* executed, the response reports the execution, also when a model call    *)
(* of the resumed loop fails.                                              *)
(***************************************************************************)
C32_FailureReturned ==
  /\ pc = "idle"
  /\ op = "confirm"
  /\ response.op = "confirm"
  /\ response.message.kind = "tx_failed"

C32_ToolExecuted ==
  /\ CallExecs # <<>>
  /\ CallExecs[1].by = "confirm"
  /\ CallExecs[1].ok

C32_FailedOnlyWhenToolRaised == C32_FailureReturned => ~C32_ToolExecuted

\* the part the code keeps: the resumed loop returning without a failure
\* of the model
C32_SuccessReportedWithoutModelFailure ==
  (/\ pc = "idle"
   /\ op = "confirm"
   /\ C32_ToolExecuted
   /\ llmLog # <<>>
   /\ llmLog[Len(llmLog)] # "raise")
  => /\ response.message.kind # "tx_failed"
     /\ response.message.prefix # Null

C32_WitnessToolRaised ==
  /\ C32_FailureReturned
  /\ CallExecs # <<>>
  /\ ~CallExecs[1].ok

(***************************************************************************)
(* C33: when the wallet operation behind a confirmed transaction fails,    *)
(* confirmTransaction answers with the failure message and never with the  *)
(* success prefix, whatever the fund-moving tool, uniswap_swap included.   *)
(***************************************************************************)
C33_ConfirmReturned ==
  /\ pc = "idle"
  /\ op = "confirm"
  /\ response.op = "confirm"
  /\ CallExecs # <<>>
  /\ CallExecs[1].by = "confirm"

C33_OperationFailed == ~CallExecs[1].sent

C33_FailureReported ==
  /\ response.message.kind = "tx_failed"
  /\ response.message.prefix = Null

C33_FailureNeverSuccess ==
  (C33_ConfirmReturned /\ C33_OperationFailed) => C33_FailureReported

\* the part the code keeps: the tools whose invoke raises
C33_RaisedFailureReported ==
  (C33_ConfirmReturned /\ ~CallExecs[1].ok) => C33_FailureReported

C33_WitnessRaised ==
  /\ C33_ConfirmReturned
  /\ CallExecs[1].name = "wrap_eth"
  /\ ~CallExecs[1].ok
  /\ C33_FailureReported

(***************************************************************************)
(* C34: after a completed request of an adapter the client's view of       *)
(* whether a transaction awaits confirmation equals hasPendingTransaction  *)
(* of the agent; a transaction frozen by the loop that confirmTransaction  *)
(* resumed is shown to the user.  The view before the request is the one   *)
(* that agreed with the agent when the request was made.                   *)
(***************************************************************************)
C34_RequestCompleted ==
  /\ pc = "idle"
  /\ op \in {"chat", "confirm", "cancel"}
  /\ response.op = op
  /\ op \in {"confirm", "cancel"} => prePending # Null

C34_PageView ==
  hasPendingTx(prePending # Null, op, RouteResponse(op, response))

C34_ViewIsAgentState ==
  C34_RequestCompleted => (C34_PageView = hasPendingTransaction)

\* the command line after a confirm step
C34_CommandLineShowsPending ==
  (C34_RequestCompleted /\ op = "confirm")
    => (cliAwaitsDecision(op, response) = hasPendingTransaction)

\* the part the code keeps: the requests whose loop freezes nothing after
\* a confirmation
C34_ViewIsAgentStateUnlessRefrozen ==
  (C34_RequestCompleted /\ ~(op = "confirm" /\ response.pendingTransaction # Null))
    => (C34_PageView = hasPendingTransaction)

C34_WitnessChatFreezes ==
  /\ C34_RequestCompleted
  /\ op = "chat"
  /\ prePending = Null
  /\ C34_PageView
  /\ hasPendingTransaction

(***************************************************************************)
(* C35: when two chat calls on one agent overlap, a pending record that    *)
(* has been set is not overwritten by the other call, so that the          *)
(* transaction shown with a chat response is the one a following           *)
(* confirmTransaction executes.                                            *)
(***************************************************************************)
C35_SlotOverwritten ==
  /\ pendingTransaction # Null
  /\ pendingTransaction' # Null
  /\ pendingReq' # pendingReq

C35_PendingNotOverwritten == [][~C35_SlotOverwritten]_vars

(***************************************************************************)
(* C36: a frozen transaction is executed at most once, also when two       *)
(* confirmTransaction calls overlap, the second starting while the first   *)
(* waits for the tool.                                                     *)
(***************************************************************************)
C36_ConfirmedExecs == SelectSeq(execLog, LAMBDA e : e.by = "confirm")

C36_ExecutedAtMostOnce ==
  \A i, j \in 1..Len(C36_ConfirmedExecs) :
    i # j => C36_ConfirmedExecs[i].id # C36_ConfirmedExecs[j].id

(***************************************************************************)
(* C37: when cancelTransaction acknowledges the cancellation of a pending  *)
(* transaction, the tool of that transaction is not invoked, also when the *)
(* cancel runs while a confirmTransaction for the record waits for the     *)
(* tool.                                                                   *)
(***************************************************************************)
C37_InvokedRequests ==
  {execLog[i].id : i \in {k \in 1..Len(execLog) : execLog[k].by = "confirm"}}
    \cup {threads[t].toolCall[1].id :
            t \in {u \in DOMAIN threads : threads[u].pc = "confirm_invoke"}}

C37_CancelledNotInvoked == cancelledReqs \cap C37_InvokedRequests = {}

(***************************************************************************)
(* C38: the server calls agent.chat only on an agent whose initialize()    *)
(* has completed, also when /api/initialize, /api/chat and                 *)
(* /api/wallets/switch requests overlap.                                   *)
(***************************************************************************)
C38_ChatCalled(r) == threads[r].kind = "chat" /\ threads[r].pc = "done"

C38_ChatOnInitializedAgent ==
  profile = "server" =>
    \A r \in DOMAIN threads : C38_ChatCalled(r) => threads[r].chatOnInitialized

\* the part the code keeps: a chat request with no other request in progress
C38_ChatAloneOnInitializedAgent ==
  profile = "server" =>
    \A r \in DOMAIN threads :
      (/\ C38_ChatCalled(r)
       /\ \A q \in DOMAIN threads : q # r => threads[q].kind = "none")
      => threads[r].chatOnInitialized

(***************************************************************************)
(* C39: formatToolResult returns a string and never throws, for every raw  *)
(* result: a string that is not JSON, a string that looks like JSON and is *)
(* not, an object or an array (also one that cannot be serialized), null,  *)
(* undefined or a number.                                                  *)
(***************************************************************************)
C39_Formatted == applied.fn = "formatToolResult"

C39_ReturnsString ==
  C39_Formatted =>
    /\ ~applied.outcome.threw
    /\ applied.outcome.type = "string"

\* the part the code keeps: every result but an object or array that
\* JSON.stringify rejects, given to the default branch, comes back as a
\* string
C39_Unserializable ==
  /\ applied.input.type \in {"object", "array"}
  /\ ~applied.input.serializable

C39_ReturnsStringUnlessUnserializable ==
  (C39_Formatted /\ ~C39_Unserializable) =>
    /\ ~applied.outcome.threw
    /\ applied.outcome.type = "string"

C39_WitnessMalformed ==
  /\ C39_Formatted
  /\ applied.input.looks = "malformed"
  /\ applied.outcome = ReturnedString(applied.input.text)

(***************************************************************************)
(* C40: the stored client wallet address and the stored server wallet      *)
(* address are each null or a trimmed text of 0x and 40 hexadecimal        *)
(* digits; a set call with a non-empty address that is not valid leaves    *)
(* the stored value as it was, and a set call with null or the empty       *)
(* string clears it.                                                       *)
(***************************************************************************)
C40_TrimmedWellFormed(chars) ==
  /\ Len(chars) = 1
  /\ chars[1] \notin {"sp", "zz", "0x1"}

C40_NullOrWellFormed(stored) ==
  stored # Null => C40_TrimmedWellFormed(stored[1])

C40_SetCall == applied.fn \in {"setClientWalletAddress",
                               "setServerWalletAddress"}

C40_Stored ==
  IF applied.fn = "setClientWalletAddress" THEN clientWalletAddress
  ELSE serverWalletAddress

C40_Empty == applied.input.isNull \/ Len(applied.input.chars) = 0

C40_Invalid == ~C40_Empty /\ ~C40_TrimmedWellFormed(trim(applied.input.chars))

C40_StoredAddressesWellFormed ==
  /\ C40_NullOrWellFormed(clientWalletAddress)
  /\ C40_NullOrWellFormed(serverWalletAddress)
  /\ (C40_SetCall /\ C40_Invalid) => C40_Stored = applied.before
  /\ (C40_SetCall /\ C40_Empty) => C40_Stored = Null

\* an address was stored and a call with an invalid text left it
C40_WitnessInvalidKeeps ==
  /\ applied.fn = "setClientWalletAddress"
  /\ C40_Invalid
  /\ applied.before # Null
  /\ clientWalletAddress = applied.before

\* a text with whitespace around a valid address was stored trimmed
C40_WitnessTrimmed ==
  /\ applied.fn = "setClientWalletAddress"
  /\ applied.input.chars = <<"sp", "0xA1", "sp">>
  /\ clientWalletAddress = Some(<<"0xA1">>)

====
